---- MODULE Spec2Model ----
(***************************************************************************)
(* VaultVerse security core: the login / lockout state machine, the login  *)
(* rate limiter, and the session (token) authority, as a state machine.    *)
(*                                                                         *)
(* Time is the wall clock in whole seconds.  jsonwebtoken stamps iat/exp   *)
(* in whole seconds and SQLite's datetime('now') has one-second            *)
(* resolution, so everything that happens between two Tick steps happens   *)
(* in the same clock second.                                               *)
(*                                                                         *)
(* Node runs each handler to its first real await without interleaving.    *)
(* login awaits bcrypt (verifyPassword) between reading the users row and  *)
(* writing it back, so it is two steps: LoginStart and LoginFinish.        *)
(* refreshAccessToken, invalidateSession, invalidateAllUserSessions,       *)
(* validateSession and cleanExpiredSessions contain no await before their  *)
(* last store access, so each is one step.                                 *)
(***************************************************************************)
EXTENDS Integers, FiniteSets, Sequences, Bags, TLC

----------------------------------------------------------------------------
\* Bounds of the model
MaxTicks == 2
MaxInFlight == 2
MaxSessions == 2
MaxAccounts == 2
MaxRequests == 2
MaxLen == 3
MaxUsers == 2
MaxClientRequests == 2

\* Policy constants of the program
MaxLoginAttempts == 5
LockoutSeconds == 1800
LimiterMaxAttempts == 5
LimiterWindowSeconds == 900
AccessTtlSeconds == 604800
RefreshTtlSeconds == 2592000
SessionExtendSeconds == 604800
AccountsReadMax == 200
AccountsWriteMax == 100
AccountsWindowSeconds == 900
TransferMax == 10
TransferWindowSeconds == 3600
MinExportPasswordLength == 8

UserIds == {1}
Unknown == 0
Ips == {"ip1"}
Passwords == {"right", "wrong"}
SiteNames == {"a", "b"}
TickSizes == {1, LockoutSeconds, AccessTtlSeconds}

VARIABLES
  now,            \* wall clock, seconds
  ticks,          \* number of clock advances so far
  users,          \* users table: id -> row, for registered ids
  sessions,       \* sessions table: set of rows
  nextSessionId,  \* AUTOINCREMENT of sessions.id
  requestCounts,  \* the middleware's in-memory Map: key -> {count, resetTime}
  pending,        \* bag of login requests suspended at await verifyPassword
  revoked,        \* access tokens for which invalidateSession has returned
  revokedRefresh, \* refresh tokens of the sessions hit by a revocation
  ev,             \* the last request and its response
  accounts,       \* accounts table: set of rows
  nextAccountId,  \* AUTOINCREMENT of accounts.id
  returned,       \* the account rows read for the last vault response
  body,           \* what the last response carried, or what the last call returned
  call,           \* a function called on its own: its name and arguments
  exportLog,      \* the clock seconds at which the limiter admitted an export
  localStorage,   \* the browser's localStorage: accessToken and refreshToken
  originalRequests \* the client's requests: config, response, where each stands

vaultVars == <<accounts, nextAccountId, returned>>

clientVars == <<localStorage, originalRequests>>

auxVars == <<body, call, exportLog, clientVars>>

vars == <<now, ticks, users, sessions, nextSessionId,
          requestCounts, pending, revoked, revokedRefresh, ev, vaultVars, auxVars>>

----------------------------------------------------------------------------
\* Hashing primitives

\* crypto sha256 hex digest: one-way, collision-free on the tokens in use
hashToken(token) == <<"sha256", token>>

\* bcrypt.hash / bcrypt.compare: compare succeeds exactly on the hashed secret
hashPassword(password) == <<"bcrypt", password>>

\* a stored digest that is no bcrypt digest, and a digest column holding NULL
MalformedDigest == <<"malformed">>
NullDigest == <<"null">>

\* bcrypt.compare: rejects when an argument is missing, resolves to false
\* for a digest it cannot read, and to the comparison otherwise
bcryptCompare(password, hash) ==
  IF hash = NullDigest THEN [threw |-> TRUE, value |-> FALSE]
  ELSE [threw |-> FALSE, value |-> hashPassword(password) = hash]

\* a verification that accepts every password
verifyPasswordAny(password, hash) == TRUE

\* verifyPassword: try { return await bcrypt.compare } catch { return false }
verifyPassword(password, hash) ==
  LET compared == bcryptCompare(password, hash) IN
  IF compared.threw THEN FALSE ELSE compared.value

\* the password each identity registered with
PasswordOf(u) == "right"

----------------------------------------------------------------------------
\* Secret cipher (encryptData / decryptData)

\* A JavaScript string is a sequence of UTF-16 code units: "a" is a letter,
\* "hi" and "lo" are a high and a low surrogate, which make one character
\* when "lo" follows "hi" and are unpaired otherwise; "fffd" is U+FFFD
Units == {"a", "hi", "lo"}

Plaintexts == UNION {[1..n -> Units] : n \in 0..MaxLen}

\* what crypto.randomBytes(16) may return
Ivs == {"iv1", "iv2"}

\* config.encryption.aesKey
AesKey == "aesKey"

\* a function call that returned `value`, and one that threw
Returned(value) == [threw |-> FALSE, value |-> value]
Threw == [threw |-> TRUE, value |-> <<>>]

\* the 'utf8' input encoding of cipher.update: one group of bytes for each
\* character; an unpaired surrogate is written as the bytes of U+FFFD
RECURSIVE Utf8Encode(_)
Utf8Encode(str) ==
  IF str = <<>> THEN <<>>
  ELSE IF str[1] = "a" THEN <<"61">> \o Utf8Encode(Tail(str))
  ELSE IF str[1] = "hi" /\ Len(str) >= 2 /\ str[2] = "lo"
    THEN <<"f09f9880">> \o Utf8Encode(Tail(Tail(str)))
  ELSE <<"efbfbd">> \o Utf8Encode(Tail(str))

\* the 'utf8' output encoding of decipher.update / final
RECURSIVE Utf8Decode(_)
Utf8Decode(bytes) ==
  IF bytes = <<>> THEN <<>>
  ELSE IF bytes[1] = "61" THEN <<"a">> \o Utf8Decode(Tail(bytes))
  ELSE IF bytes[1] = "f09f9880" THEN <<"hi", "lo">> \o Utf8Decode(Tail(bytes))
  ELSE <<"fffd">> \o Utf8Decode(Tail(bytes))

\* toString('hex') and Buffer.from(x, 'hex')
Hex(x) == <<"hex", x>>
FromHex(h) == h[2]

\* createCipheriv('aes-256-cbc', key, iv): update and final
AesCbcEncrypt(key, iv, bytes) == <<"aes-256-cbc", key, iv, bytes>>

\* createDecipheriv('aes-256-cbc', key, iv): the bytes come back under the
\* key and IV they were encrypted with, final() throws otherwise
AesCbcDecrypt(key, iv, ciphertext) ==
  IF ciphertext[2] = key /\ ciphertext[3] = iv
    THEN Returned(ciphertext[4]) ELSE Threw

\* a storage that keeps the secret as it came
encryptDataVerbatim(plaintext, iv) ==
  IF plaintext = <<>> THEN Threw ELSE Returned(plaintext)

\* encryptData(plaintext) with `iv` the random IV it drew: hex(iv):hex(ct)
encryptData(plaintext, iv) ==
  IF plaintext = <<>> THEN Threw
  ELSE Returned(<<Hex(iv), ":", Hex(AesCbcEncrypt(AesKey, iv, Utf8Encode(plaintext)))>>)

\* decryptData(encryptedData)
decryptData(encryptedData) ==
  IF encryptedData = <<>> \/ \A i \in DOMAIN encryptedData : encryptedData[i] # ":"
    THEN Threw
  ELSE
    LET parts == SelectSeq(encryptedData, LAMBDA x : x # ":")
        decrypted == AesCbcDecrypt(AesKey, FromHex(parts[1]), FromHex(parts[2]))
    IN IF decrypted.threw THEN Threw ELSE Returned(Utf8Decode(decrypted.value))

----------------------------------------------------------------------------
\* Token generation and verification

\* jwt.sign of {userId, username, email, type:'access'}: no nonce, so the
\* token string is a function of the user and of the second it is signed in
generateAccessToken(userId, t) ==
  [type |-> "access", userId |-> userId, iat |-> t, exp |-> t + AccessTtlSeconds,
   tokenHash |-> <<>>]

\* jwt.sign of {userId, tokenHash: hashToken(random), type:'refresh'}
generateRefreshToken(userId, nonce, t) ==
  [type |-> "refresh", userId |-> userId, iat |-> t, exp |-> t + RefreshTtlSeconds,
   tokenHash |-> hashToken(<<"random", nonce>>)]

\* verifyAccessToken without the expiry of the token
verifyAccessTokenNoExpiry(token, t) == token.type = "access"

\* a verification that reads the expiry and not the type claim
verifyAccessTokenAnyType(token, t) == t < token.exp

\* jwt.verify: signature (only issued tokens carry one), then exp, then type
verifyAccessToken(token, t) == t < token.exp /\ token.type = "access"

\* verifyRefreshToken without the expiry of the token
verifyRefreshTokenNoExpiry(token, t) == token.type = "refresh"

verifyRefreshToken(token, t) == t < token.exp /\ token.type = "refresh"

----------------------------------------------------------------------------
\* Lockout policy (login controller)

\* the lock test with the comparison turned round
IsLockedReversed(user, t) == \E l \in user.locked_until : l < t

\* user.locked_until && new Date(user.locked_until) > new Date()
IsLocked(user, t) == \E l \in user.locked_until : l > t

\* the failed-login UPDATE locking one failure late
FailedLoginUpdateLate(row, readAttempts, t) ==
  LET newAttempts == readAttempts + 1 IN
  IF newAttempts > MaxLoginAttempts
    THEN [row EXCEPT !.login_attempts = newAttempts,
                     !.locked_until = {t + LockoutSeconds}]
    ELSE [row EXCEPT !.login_attempts = newAttempts]

\* the UPDATE issued when the password does not verify: the counter written
\* is the one read before the await, plus one
FailedLoginUpdate(row, readAttempts, t) ==
  LET newAttempts == readAttempts + 1 IN
  IF newAttempts >= MaxLoginAttempts
    THEN [row EXCEPT !.login_attempts = newAttempts,
                     !.locked_until = {t + LockoutSeconds}]
    ELSE [row EXCEPT !.login_attempts = newAttempts]

\* the successful-login UPDATE without the counter
SuccessfulLoginUpdateLockOnly(row) == [row EXCEPT !.locked_until = {}]

\* UPDATE users SET login_attempts = 0, locked_until = NULL
SuccessfulLoginUpdate(row) ==
  [row EXCEPT !.login_attempts = 0, !.locked_until = {}]

----------------------------------------------------------------------------
\* Login rate limiter (middleware); the Map is keyed by
\* req.body.username || req.ip, and the body of a login carries `identifier`
\* and no `username`, so the key of a login is the address

SetCount(rc, key, entry) ==
  [k \in (DOMAIN rc) \cup {key} |-> IF k = key THEN entry ELSE rc[k]]

\* a limiter that refuses only above the maximum
loginRateLimiterOneMore(rc, key, t) ==
  IF key \notin DOMAIN rc
    THEN [admit |-> TRUE,
          counts |-> SetCount(rc, key, [count |-> 1, resetTime |-> t + LimiterWindowSeconds])]
  ELSE IF t > rc[key].resetTime
    THEN [admit |-> TRUE,
          counts |-> SetCount(rc, key, [count |-> 1, resetTime |-> t + LimiterWindowSeconds])]
  ELSE IF rc[key].count > LimiterMaxAttempts
    THEN [admit |-> FALSE, counts |-> rc]
  ELSE [admit |-> TRUE,
        counts |-> SetCount(rc, key, [rc[key] EXCEPT !.count = @ + 1])]

\* result: whether next() is called, and the Map afterwards
loginRateLimiter(rc, key, t) ==
  IF key \notin DOMAIN rc
    THEN [admit |-> TRUE,
          counts |-> SetCount(rc, key, [count |-> 1, resetTime |-> t + LimiterWindowSeconds])]
  ELSE IF t > rc[key].resetTime
    THEN [admit |-> TRUE,
          counts |-> SetCount(rc, key, [count |-> 1, resetTime |-> t + LimiterWindowSeconds])]
  ELSE IF rc[key].count >= LimiterMaxAttempts
    THEN [admit |-> FALSE, counts |-> rc]
  ELSE [admit |-> TRUE,
        counts |-> SetCount(rc, key, [rc[key] EXCEPT !.count = @ + 1])]

----------------------------------------------------------------------------
\* Session store operations

\* Timestamps are stored and compared as text.  storeSession writes
\* Date.toISOString() ("2026-11-08T12:00:00.000Z"), SQLite's datetime()
\* gives "2026-11-08 12:00:00"; the columns are compared byte by byte.
toISOString(t) == <<"iso", t>>
datetime(t) == <<"sql", t>>

\* the calendar day (UTC) of a timestamp text: its first ten characters
DateOf(text) == text[2] \div 86400

\* a < b as SQLite compares the two texts: texts of one format, and texts of
\* different days, are ordered as their instants; on the same day the
\* eleventh character decides, and " " sorts before "T"
TextLess(a, b) ==
  IF a[1] = b[1] THEN a[2] < b[2]
  ELSE IF DateOf(a) # DateOf(b) THEN DateOf(a) < DateOf(b)
  ELSE a[1] = "sql"

\* INSERT INTO sessions: token_hash and refresh_token_hash are UNIQUE
InsertAllowed(S, tokenHash, refreshHash) ==
  \A s \in S : s.token_hash # tokenHash /\ s.refresh_token_hash # refreshHash

\* an INSERT that digests the decoded claims with exp blanked, not the
\* token string sent to the client
storeSessionClaimsDigest(S, id, userId, accessToken, refreshTokenHash, t) ==
  S \cup {[id |-> id, user_id |-> userId,
           token_hash |-> hashToken([accessToken EXCEPT !.exp = 0]),
           refresh_token_hash |-> refreshTokenHash,
           expires_at |-> toISOString(accessToken.exp),
           created_at |-> t,
           is_valid |-> TRUE]}

\* INSERT INTO sessions: the digest of the access token, the tokenHash that
\* generateRefreshToken returned, the exp of the access token as ISO text
storeSession(S, id, userId, accessToken, refreshTokenHash, t) ==
  S \cup {[id |-> id, user_id |-> userId,
           token_hash |-> hashToken(accessToken),
           refresh_token_hash |-> refreshTokenHash,
           expires_at |-> toISOString(accessToken.exp),
           created_at |-> t,
           is_valid |-> TRUE]}

\* the SELECT of validateSession: a live row for this token's digest
validateSession(token, S, U, t) ==
  \E s \in S : /\ s.token_hash = hashToken(token)
               /\ s.is_valid
               /\ TextLess(datetime(t), s.expires_at)
               /\ U[s.user_id].is_active

\* the middleware: verifyAccessToken, then validateSession
authenticateToken(token, S, U, t) ==
  verifyAccessToken(token, t) /\ validateSession(token, S, U, t)

\* an UPDATE that flips is_valid of the matching row
invalidateSessionToggle(token, S) ==
  {IF s.token_hash = hashToken(token) THEN [s EXCEPT !.is_valid = ~s.is_valid] ELSE s : s \in S}

\* UPDATE sessions SET is_valid = 0 WHERE token_hash = ?
invalidateSession(token, S) ==
  {IF s.token_hash = hashToken(token) THEN [s EXCEPT !.is_valid = FALSE] ELSE s : s \in S}

\* UPDATE sessions SET is_valid = 0 WHERE user_id = ? AND is_valid = 1
invalidateAllUserSessions(userId, S) ==
  {IF s.user_id = userId /\ s.is_valid THEN [s EXCEPT !.is_valid = FALSE] ELSE s : s \in S}

\* a count of every row of the user, valid or not
invalidateAllUserSessionsChangesAnyValidity(userId, S) ==
  Cardinality({s \in S : s.user_id = userId})

\* result.changes of that UPDATE: the number of rows its WHERE clause matched
invalidateAllUserSessionsChanges(userId, S) ==
  Cardinality({s \in S : s.user_id = userId /\ s.is_valid})

\* DELETE FROM sessions WHERE expires_at < datetime('now') OR is_valid = 0
cleanExpiredSessions(S, t) ==
  {s \in S : ~(TextLess(s.expires_at, datetime(t)) \/ ~s.is_valid)}

\* the lookup without its is_valid condition
RefreshSessionRowsAnyValidity(tokenHash, S) ==
  {s \in S : s.refresh_token_hash = tokenHash}

\* SELECT * FROM sessions WHERE refresh_token_hash = ? AND is_valid = 1
RefreshSessionRows(tokenHash, S) ==
  {s \in S : s.refresh_token_hash = tokenHash /\ s.is_valid}

\* a refresh whose UPDATE is keyed by the owner: WHERE user_id = ?
refreshAccessTokenByOwner(rt, S, U, t) ==
  LET rows == RefreshSessionRows(rt.tokenHash, S)
      failure == [success |-> FALSE, accessToken |-> {}, sessions |-> S]
      newAccessToken == generateAccessToken(rt.userId, t)
  IN
  IF ~verifyRefreshToken(rt, t) THEN failure
  ELSE IF rows = {} THEN failure
  ELSE IF ~(rt.userId \in DOMAIN U /\ U[rt.userId].is_active) THEN failure
  ELSE [success |-> TRUE,
        accessToken |-> {newAccessToken},
        sessions |->
          {IF s.user_id = rt.userId
             THEN [s EXCEPT !.expires_at = datetime(t + SessionExtendSeconds)]
             ELSE s : s \in S}]

\* refreshAccessToken: result flag, the token returned, the table afterwards
refreshAccessToken(rt, S, U, t) ==
  LET rows == RefreshSessionRows(rt.tokenHash, S)
      failure == [success |-> FALSE, accessToken |-> {}, sessions |-> S]
  IN
  IF ~verifyRefreshToken(rt, t) THEN failure
  ELSE IF rows = {} THEN failure
  ELSE IF ~(rt.userId \in DOMAIN U /\ U[rt.userId].is_active) THEN failure
  ELSE
    LET session == CHOOSE s \in rows : TRUE
        newAccessToken == generateAccessToken(rt.userId, t)
        newTokenHash == hashToken(newAccessToken)
    IN
    \* the UPDATE throws on the UNIQUE index when another row holds the digest
    IF \E o \in S : o.id # session.id /\ o.token_hash = newTokenHash THEN failure
    ELSE [success |-> TRUE,
          accessToken |-> {newAccessToken},
          sessions |-> (S \ {session}) \cup
             {[session EXCEPT !.token_hash = newTokenHash,
                              !.expires_at = datetime(t + SessionExtendSeconds)]}]

----------------------------------------------------------------------------
\* Vault codec (encryptExportData / decryptImportData)

\* config.encryption.exportKey
ExportKey == "exportKey"

\* JSON.stringify on the values the codec handles (strings, null, booleans,
\* arrays and objects of them), and JSON.parse, which throws on a text that
\* is no JSON
Json(value) == <<"json", value>>
GarbageText == <<"garbage">>
ParseJson(text) == IF text[1] = "json" THEN Returned(text[2]) ELSE Threw

\* CryptoJS.AES.encrypt(text, passphrase).toString()
CryptoJsEncrypt(text, passphrase) == <<"cryptojs", passphrase, text>>

\* a decryption that never looks at the passphrase
CryptoJsDecryptAnyKey(ciphertext, passphrase) ==
  IF Len(ciphertext) = 3 THEN Returned(ciphertext[3]) ELSE Threw

\* CryptoJS.AES.decrypt(ciphertext, passphrase).toString(CryptoJS.enc.Utf8):
\* the text under the passphrase it was encrypted with; under another one,
\* or on damaged data, bytes that are no UTF-8 (it throws) or no bytes at all
\* (the empty string, which decryptImportData turns into a throw)
CryptoJsDecrypt(ciphertext, passphrase) ==
  IF Len(ciphertext) = 3 /\ ciphertext[2] = passphrase
    THEN Returned(ciphertext[3]) ELSE Threw

\* the export package: version, timestamp, data
ExportPackage(version, timestamp, data) ==
  [version |-> version, timestamp |-> timestamp, data |-> data]

\* encryptExportData(data, customKey) at clock second t
encryptExportData(data, customKey, t) ==
  LET key == IF customKey = "" THEN ExportKey ELSE customKey IN
  Json(ExportPackage("1.0", toISOString(t), CryptoJsEncrypt(Json(data), key)))

\* decryptImportData(encryptedPackage, customKey): every failure inside is
\* caught and thrown again as one error
decryptImportData(encryptedPackage, customKey) ==
  LET key == IF customKey = "" THEN ExportKey ELSE customKey
      packageData == ParseJson(encryptedPackage)
  IN
  IF packageData.threw THEN Threw
  ELSE IF packageData.value.version = "" \/ packageData.value.data = <<>> THEN Threw
  ELSE
    LET decrypted == CryptoJsDecrypt(packageData.value.data, key) IN
    IF decrypted.threw THEN Threw ELSE ParseJson(decrypted.value)

\* JSON null, and whether `!value` holds for a string or null
NullValue == <<"null">>
Falsy(value) == value = <<>> \/ value = NullValue

\* what a decrypted payload parses to: an object with an `accounts` array,
\* an object without that field, an object whose `accounts` is no array,
\* and the JSON value null
Bundle(list) == [kind |-> "object", accountsKind |-> "array", accounts |-> list]
NoAccountsPayload == [kind |-> "object", accountsKind |-> "missing", accounts |-> <<>>]
NullPayload == [kind |-> "null", accountsKind |-> "missing", accounts |-> <<>>]

\* the response of a handler: HTTP status, error text, data
Response(status, error, data) == [status |-> status, error |-> error, data |-> data]

\* importVault up to the transaction: 0 with the accounts to import, or the
\* response that ends the request
ImportDecode(importData, importPassword) ==
  IF importData = <<>> \/ importPassword = ""
    THEN Response(400, "Data import dan password harus diisi", <<>>)
  ELSE
    LET decryptedData == decryptImportData(importData, importPassword) IN
    IF decryptedData.threw
      THEN Response(400, "Gagal mendekripsi file import. Password salah atau file rusak.", <<>>)
    \* null.accounts is a TypeError, caught by the handler's outer catch
    ELSE IF decryptedData.value.kind = "null"
      THEN Response(500, "Terjadi kesalahan saat mengimpor vault", <<>>)
    ELSE IF decryptedData.value.accountsKind # "array"
      THEN Response(400, "Format file import tidak valid", <<>>)
    ELSE IF decryptedData.value.accounts = <<>>
      THEN Response(400, "File import tidak mengandung akun untuk diimpor", <<>>)
    ELSE Response(0, "", decryptedData.value.accounts)

----------------------------------------------------------------------------
\* Requests and responses

Event(op, status, user, password, access, old, snap) ==
  [op |-> op, status |-> status, user |-> user, password |-> password,
   access |-> access, old |-> old, snap |-> snap]

\* no response yet, and no function called on its own
NoBody == [status |-> 0, error |-> "", data |-> <<>>]
NoCall == [fn |-> ""]

\* generateSecureToken(64): a value no earlier call returned
FreshNonce == nextSessionId

\* the token whose digest a row holds
TokenOfHash(h) == h[2]

\* the refresh token that was issued together with a row
RefreshTokenOfRow(s) ==
  generateRefreshToken(s.user_id, TokenOfHash(s.refresh_token_hash)[2], s.created_at)

\* Tokens clients present.  A token is presented only after it was issued,
\* and an issued token whose digest no row holds is rejected by the store
\* lookup whatever else holds, so the tokens enumerated are those of the
\* rows, and those already revoked.
AccessTokens == {TokenOfHash(s.token_hash) : s \in sessions} \cup revoked
RefreshTokens == {RefreshTokenOfRow(s) : s \in sessions} \cup revokedRefresh

\* The state after a server start on a database that holds the registered
\* identities: no session row, an empty limiter Map, no request in flight.
\* a browser that holds no token and has sent nothing
NoTokens == [accessToken |-> {}, refreshToken |-> {}]

NoClient == localStorage = NoTokens /\ originalRequests = <<>>

Idle ==
  /\ now = 0
  /\ ticks = 0
  /\ users = [u \in UserIds |->
                [password_hash |-> hashPassword(PasswordOf(u)),
                 login_attempts |-> 0,
                 locked_until |-> {},
                 is_active |-> TRUE]]
  /\ sessions = {}
  /\ nextSessionId = 1
  /\ requestCounts = [k \in {} |-> 0]
  /\ pending = EmptyBag
  /\ revoked = {}
  /\ revokedRefresh = {}
  /\ ev = Event("start", 0, Unknown, "", {}, {}, 0)
  /\ accounts = {}
  /\ nextAccountId = 1
  /\ returned = {}
  /\ body = NoBody
  /\ exportLog = <<>>
  /\ NoClient

Init == Idle /\ call = NoCall

\* POST /auth/login up to `await verifyPassword`: loginRateLimiter, the
\* users row is read, the active and lock checks are made
LoginStart(ip, ident, password) ==
  LET lim == loginRateLimiter(requestCounts, ip, now) IN
  /\ BagCardinality(pending) < MaxInFlight
  /\ UNCHANGED <<vaultVars, auxVars>>
  /\ UNCHANGED <<now, ticks, users, sessions, nextSessionId, revoked, revokedRefresh>>
  /\ IF ~lim.admit THEN
       /\ ev' = Event("login", 429, ident, password, {}, {}, 0)
       /\ UNCHANGED <<requestCounts, pending>>
     ELSE
       /\ requestCounts' = lim.counts
       /\ IF ident \notin DOMAIN users THEN
            /\ ev' = Event("login", 401, ident, password, {}, {}, 0)
            /\ UNCHANGED pending
          ELSE IF ~users[ident].is_active THEN
            /\ ev' = Event("login", 403, ident, password, {}, {}, 0)
            /\ UNCHANGED pending
          ELSE IF IsLocked(users[ident], now) THEN
            /\ ev' = Event("login_locked", 403, ident, password, {}, {}, 0)
            /\ UNCHANGED pending
          ELSE
            /\ pending' = pending (+) SetToBag({
                 [user |-> ident, password |-> password,
                  password_hash |-> users[ident].password_hash,
                  login_attempts |-> users[ident].login_attempts,
                  locked_until |-> users[ident].locked_until]})
            /\ ev' = Event("login_verify", 0, ident, password, {}, {},
                           users[ident].login_attempts)

\* POST /auth/login from the resolution of verifyPassword to the response
LoginFinish(req) ==
  LET u == req.user
      accessToken == generateAccessToken(u, now)
      refreshToken == generateRefreshToken(u, FreshNonce, now)
  IN
  /\ pending' = pending (-) SetToBag({req})
  /\ UNCHANGED <<now, ticks, requestCounts, revoked, revokedRefresh>>
  /\ UNCHANGED <<vaultVars, auxVars>>
  /\ IF ~verifyPassword(req.password, req.password_hash) THEN
       /\ users' = [users EXCEPT ![u] =
                      FailedLoginUpdate(users[u], req.login_attempts, now)]
       /\ ev' = Event("login_done", 401, u, req.password, {}, {}, req.login_attempts)
       /\ UNCHANGED <<sessions, nextSessionId>>
     ELSE
       /\ users' = [users EXCEPT ![u] = SuccessfulLoginUpdate(users[u])]
       /\ IF InsertAllowed(sessions, hashToken(accessToken), refreshToken.tokenHash)
            THEN
              /\ nextSessionId <= MaxSessions
              /\ sessions' = storeSession(sessions, nextSessionId, u, accessToken,
                                          refreshToken.tokenHash, now)
              /\ nextSessionId' = nextSessionId + 1
              /\ ev' = Event("login_done", 200, u, req.password, {accessToken}, {},
                             req.login_attempts)
            ELSE
              \* storeSession throws: the response is 500, the reset stays
              /\ ev' = Event("login_done", 500, u, req.password, {}, {}, req.login_attempts)
              /\ UNCHANGED <<sessions, nextSessionId>>

\* the username an identity is registered under; a rowid is never reused
UsernameOf(u) == "user" \o ToString(u)
NextUserId == Cardinality(DOMAIN users) + 1
UsernameTaken(username) == \E u \in DOMAIN users : UsernameOf(u) = username

\* POST /auth/register up to await hashPassword: loginRateLimiter under the
\* key req.body.username || req.ip, the validation of the body, the two
\* SELECTs for a row that holds the username or the email
RegisterStart(ip, username, password) ==
  LET key == IF username = "" THEN ip ELSE username
      lim == loginRateLimiter(requestCounts, key, now)
  IN
  /\ BagCardinality(pending) < MaxInFlight
  /\ Cardinality(DOMAIN users) < MaxUsers
  /\ UNCHANGED <<vaultVars, auxVars>>
  /\ UNCHANGED <<now, ticks, users, sessions, nextSessionId, revoked, revokedRefresh>>
  /\ IF ~lim.admit THEN
       /\ ev' = Event("register", 429, Unknown, password, {}, {}, 0)
       /\ UNCHANGED <<requestCounts, pending>>
     ELSE
       /\ requestCounts' = lim.counts
       /\ IF username = "" \/ password = "" THEN
            /\ ev' = Event("register", 400, Unknown, password, {}, {}, 0)
            /\ UNCHANGED pending
          ELSE IF UsernameTaken(username) THEN
            /\ ev' = Event("register", 409, Unknown, password, {}, {}, 0)
            /\ UNCHANGED pending
          ELSE
            /\ pending' = pending (+) SetToBag({[username |-> username,
                                                 password |-> password]})
            /\ ev' = Event("register_hash", 0, Unknown, password, {}, {}, 0)

\* POST /auth/register from the resolution of hashPassword to the response:
\* the INSERT INTO users (it throws when a row took the username meanwhile),
\* the tokens, storeSession
RegisterFinish(req) ==
  LET u == NextUserId
      accessToken == generateAccessToken(u, now)
      refreshToken == generateRefreshToken(u, FreshNonce, now)
  IN
  /\ pending' = pending (-) SetToBag({req})
  /\ UNCHANGED <<now, ticks, requestCounts, revoked, revokedRefresh>>
  /\ UNCHANGED <<vaultVars, auxVars>>
  /\ IF UsernameTaken(req.username) THEN
       /\ ev' = Event("register_done", 500, Unknown, req.password, {}, {}, 0)
       /\ UNCHANGED <<users, sessions, nextSessionId>>
     ELSE
       /\ users' = [i \in DOMAIN users \cup {u} |->
                      IF i = u THEN [password_hash |-> hashPassword(req.password),
                                     login_attempts |-> 0,
                                     locked_until |-> {},
                                     is_active |-> TRUE]
                      ELSE users[i]]
       /\ IF InsertAllowed(sessions, hashToken(accessToken), refreshToken.tokenHash)
            THEN
              /\ nextSessionId <= MaxSessions
              /\ sessions' = storeSession(sessions, nextSessionId, u, accessToken,
                                          refreshToken.tokenHash, now)
              /\ nextSessionId' = nextSessionId + 1
              /\ ev' = Event("register_done", 201, u, req.password, {accessToken}, {}, 0)
            ELSE
              \* storeSession throws: the response is 500, the users row stays
              /\ ev' = Event("register_done", 500, u, req.password, {}, {}, 0)
              /\ UNCHANGED <<sessions, nextSessionId>>

\* a request suspended in login, as against one suspended in register
IsLoginRequest(req) == "user" \in DOMAIN req

\* POST /auth/refresh
Refresh(rt) ==
  LET res == refreshAccessToken(rt, sessions, users, now)
      rows == RefreshSessionRows(rt.tokenHash, sessions)
  IN
  /\ sessions' = res.sessions
  /\ UNCHANGED <<vaultVars, auxVars>>
  /\ ev' = Event("refresh", IF res.success THEN 200 ELSE 401, rt.userId, "",
                 res.accessToken,
                 IF res.success THEN {TokenOfHash(s.token_hash) : s \in rows} ELSE {},
                 0)
  /\ UNCHANGED <<now, ticks, users, nextSessionId, requestCounts, pending,
                 revoked, revokedRefresh>>

\* POST /auth/logout: authenticateToken, then logout -> invalidateSession
Logout(token) ==
  /\ UNCHANGED <<vaultVars, auxVars>>
  /\ IF ~authenticateToken(token, sessions, users, now) THEN
      /\ ev' = Event("logout", 401, token.userId, "", {}, {}, 0)
      /\ UNCHANGED <<now, ticks, users, sessions, nextSessionId, requestCounts,
                     pending, revoked, revokedRefresh>>
    ELSE
      /\ sessions' = invalidateSession(token, sessions)
      /\ revoked' = revoked \cup {token}
      /\ revokedRefresh' = revokedRefresh \cup
           {RefreshTokenOfRow(s) : s \in {x \in sessions : x.token_hash = hashToken(token)}}
      /\ ev' = Event("logout", 200, token.userId, "", {}, {}, 0)
      /\ UNCHANGED <<now, ticks, users, nextSessionId, requestCounts, pending>>

\* POST /auth/logout-all: authenticateToken, validateUserStatus, then
\* logoutAll -> invalidateAllUserSessions
LogoutAll(token) ==
  /\ UNCHANGED <<vaultVars, auxVars>>
  /\ IF ~authenticateToken(token, sessions, users, now) THEN
      /\ ev' = Event("logout_all", 401, token.userId, "", {}, {}, 0)
      /\ UNCHANGED <<now, ticks, users, sessions, nextSessionId, requestCounts,
                     pending, revoked, revokedRefresh>>
    ELSE IF IsLocked(users[token.userId], now) THEN
      /\ ev' = Event("logout_all", 403, token.userId, "", {}, {}, 0)
      /\ UNCHANGED <<now, ticks, users, sessions, nextSessionId, requestCounts,
                     pending, revoked, revokedRefresh>>
    ELSE
      /\ sessions' = invalidateAllUserSessions(token.userId, sessions)
      /\ revokedRefresh' = revokedRefresh \cup
           {RefreshTokenOfRow(s) :
              s \in {x \in sessions : x.user_id = token.userId /\ x.is_valid}}
      /\ ev' = Event("logout_all", 200, token.userId, "", {}, {},
                     invalidateAllUserSessionsChanges(token.userId, sessions))
      /\ UNCHANGED <<now, ticks, users, nextSessionId, requestCounts, pending, revoked>>

\* the hourly maintenance timer: cleanExpiredSessions
Cleanup ==
  /\ sessions' = cleanExpiredSessions(sessions, now)
  /\ UNCHANGED <<vaultVars, auxVars>>
  /\ ev' = Event("cleanup", 0, Unknown, "", {}, {}, 0)
  /\ UNCHANGED <<now, ticks, users, nextSessionId, requestCounts, pending,
                 revoked, revokedRefresh>>

\* the clock advances; verifyPassword (bcrypt) resolves within the second or
\* the next one, so no longer stretch passes while a login is suspended in it
Tick(d) ==
  /\ ticks < MaxTicks
  /\ d > 1 => pending = EmptyBag
  /\ now' = now + d
  /\ ticks' = ticks + 1
  /\ UNCHANGED <<vaultVars, auxVars>>
  /\ ev' = Event("tick", 0, Unknown, "", {}, {}, 0)
  /\ UNCHANGED <<users, sessions, nextSessionId, requestCounts, pending,
                 revoked, revokedRefresh>>

\* The identity is deactivated: the active flag of its users row is cleared
\* by an administrator; deactivation is a flag, never an erasure.
Deactivate(u) ==
  /\ users[u].is_active
  /\ users' = [users EXCEPT ![u].is_active = FALSE]
  /\ UNCHANGED <<vaultVars, auxVars>>
  /\ ev' = Event("deactivate", 0, u, "", {}, {}, 0)
  /\ UNCHANGED <<now, ticks, sessions, nextSessionId, requestCounts, pending,
                 revoked, revokedRefresh>>

----------------------------------------------------------------------------
\* Vault routes: authenticateToken, validateUserStatus, rateLimiter where
\* the route has one, checkAccountOwnership where it has one, the handler.
\* None of them awaits before its last write, so each request is one step.
\* An account row is kept as id, user_id, site_name and the two encrypted
\* fields; the other columns play no part in who may reach a row or in what
\* is stored of a secret.

\* validateUserStatus without the lock test
validateUserStatusActiveOnly(U, userId, t) ==
  IF userId \notin DOMAIN U THEN 404
  ELSE IF ~U[userId].is_active THEN 403
  ELSE 0

\* validateUserStatus: the status it answers, 0 when it calls next()
validateUserStatus(U, userId, t) ==
  IF userId \notin DOMAIN U THEN 404
  ELSE IF ~U[userId].is_active THEN 403
  ELSE IF \E l \in U[userId].locked_until : l > t THEN 403
  ELSE 0

\* rateLimiter(maxRequests, windowMs): the Map is keyed by req.user.id
rateLimiter(rc, key, maxRequests, windowSeconds, t) ==
  IF key \notin DOMAIN rc
    THEN [admit |-> TRUE,
          counts |-> SetCount(rc, key, [count |-> 1, resetTime |-> t + windowSeconds])]
  ELSE IF t > rc[key].resetTime
    THEN [admit |-> TRUE,
          counts |-> SetCount(rc, key, [count |-> 1, resetTime |-> t + windowSeconds])]
  ELSE IF rc[key].count >= maxRequests
    THEN [admit |-> FALSE, counts |-> rc]
  ELSE [admit |-> TRUE,
        counts |-> SetCount(rc, key, [rc[key] EXCEPT !.count = @ + 1])]

NoLimit == <<>>
AccountsReadLimit == <<AccountsReadMax, AccountsWindowSeconds>>
AccountsWriteLimit == <<AccountsWriteMax, AccountsWindowSeconds>>
TransferLimit == <<TransferMax, TransferWindowSeconds>>

\* the middleware in front of a vault handler: the status that ends the
\* request there (0 when the handler is reached) and the limiter Map after
VaultGate(token, limit) ==
  IF ~authenticateToken(token, sessions, users, now)
    THEN [status |-> 401, counts |-> requestCounts]
  ELSE LET st == validateUserStatus(users, token.userId, now) IN
    IF st # 0 THEN [status |-> st, counts |-> requestCounts]
    ELSE IF limit = NoLimit THEN [status |-> 0, counts |-> requestCounts]
    ELSE LET lim == rateLimiter(requestCounts, ToString(token.userId),
                                limit[1], limit[2], now) IN
      IF lim.admit THEN [status |-> 0, counts |-> lim.counts]
      ELSE [status |-> 429, counts |-> requestCounts]

\* the model follows a limiter entry up to MaxRequests requests
WithinRequests(token) ==
  LET key == ToString(token.userId) IN
  key \in DOMAIN requestCounts => requestCounts[key].count < MaxRequests

\* the model follows the rowid of the accounts table up to MaxAccounts
WithinAccounts == nextAccountId' <= MaxAccounts + 1

\* SELECT * FROM accounts WHERE id = ? with no owner condition
OwnedAccountsAnyOwner(A, id, userId) == {r \in A : r.id = id}

\* SELECT * FROM accounts WHERE id = ? AND user_id = ?
OwnedAccounts(A, id, userId) == {r \in A : r.id = id /\ r.user_id = userId}

VaultFrame == UNCHANGED <<now, ticks, users, sessions, nextSessionId, pending,
                          revoked, revokedRefresh, clientVars>>

\* a vault request that ends with `status`, nothing written, nothing returned
VaultRefused(op, status, token, id) ==
  /\ ev' = Event(op, status, token.userId, "", {}, {}, id)
  /\ body' = Response(status, "refused", <<>>)
  /\ UNCHANGED <<accounts, nextAccountId>>
  /\ returned' = {}

\* sanitizeInput: trim, then strip the angle brackets
sanitizeInput(input) == IF input = " " THEN "" ELSE input

\* a value better-sqlite3 cannot bind to a TEXT column (an object)
Unbindable == "[object Object]"

\* the row an INSERT INTO accounts stores
AccountRow(id, userId, siteName, encryptedPassword, encryptedNotes) ==
  [id |-> id, user_id |-> userId, site_name |-> siteName,
   password_encrypted |-> encryptedPassword, notes_encrypted |-> encryptedNotes]

\* SELECT id, site_name, ... : the columns a list or write response carries
ListedColumns(r) == [id |-> r.id, site_name |-> r.site_name]

\* BINARY collation of the site names the model stores
SiteNameOrder == <<" ", "a", "b">>
Collate(name) == CHOOSE i \in 1..Len(SiteNameOrder) : SiteNameOrder[i] = name

\* ORDER BY site_name ASC; rows of one name come in rowid order
RECURSIVE OrderBySiteName(_)
OrderBySiteName(rows) ==
  IF rows = {} THEN <<>>
  ELSE LET first == CHOOSE r \in rows : \A q \in rows :
                      \/ Collate(r.site_name) < Collate(q.site_name)
                      \/ Collate(r.site_name) = Collate(q.site_name) /\ r.id <= q.id
       IN <<first>> \o OrderBySiteName(rows \ {first})

\* GET /accounts
GetAllAccounts(token) ==
  LET gate == VaultGate(token, AccountsReadLimit)
      rows == {r \in accounts : r.user_id = token.userId}
  IN
  /\ VaultFrame
  /\ UNCHANGED exportLog
  /\ call' = [fn |-> "getAllAccounts"]
  /\ requestCounts' = gate.counts
  /\ IF gate.status # 0 THEN VaultRefused("getAllAccounts", gate.status, token, 0)
     ELSE
       /\ returned' = rows
       /\ body' = Response(200, "", {ListedColumns(r) : r \in rows})
       /\ ev' = Event("getAllAccounts", 200, token.userId, "", {}, {}, 0)
       /\ UNCHANGED <<accounts, nextAccountId>>

\* GET /accounts/:id
GetAccountById(token, id) ==
  LET gate == VaultGate(token, NoLimit)
      rows == OwnedAccounts(accounts, id, token.userId)
      account == CHOOSE r \in rows : TRUE
      password == decryptData(account.password_encrypted)
      notes == IF Falsy(account.notes_encrypted) THEN Returned(NullValue)
               ELSE decryptData(account.notes_encrypted)
  IN
  /\ VaultFrame
  /\ UNCHANGED exportLog
  /\ call' = [fn |-> "getAccountById"]
  /\ requestCounts' = gate.counts
  /\ IF gate.status # 0 THEN VaultRefused("getAccountById", gate.status, token, id)
     ELSE IF rows = {} THEN VaultRefused("getAccountById", 404, token, id)
     ELSE IF password.threw \/ notes.threw
       THEN VaultRefused("getAccountById", 500, token, id)
     ELSE
       /\ returned' = rows
       /\ body' = Response(200, "", [id |-> account.id, site_name |-> account.site_name,
                                     password |-> password.value, notes |-> notes.value])
       /\ ev' = Event("getAccountById", 200, token.userId, "", {}, {}, id)
       /\ UNCHANGED <<accounts, nextAccountId>>

\* POST /accounts with the body req; rand is what crypto.randomBytes returns
\* to the calls of encryptData, in order
CreateAccount(token, req, rand) ==
  LET gate == VaultGate(token, AccountsWriteLimit)
      cleanSiteName == sanitizeInput(req.siteName)
      encryptedPassword == encryptData(req.password, rand[1])
      encryptedNotes == IF Falsy(req.notes) THEN Returned(NullValue)
                        ELSE encryptData(req.notes, rand[2])
      row == AccountRow(nextAccountId, token.userId, cleanSiteName,
                        encryptedPassword.value, encryptedNotes.value)
  IN
  /\ VaultFrame
  /\ UNCHANGED exportLog
  /\ call' = [fn |-> "createAccount", arg |-> req]
  /\ requestCounts' = gate.counts
  /\ IF gate.status # 0 THEN VaultRefused("createAccount", gate.status, token, 0)
     ELSE IF req.siteName = "" \/ Falsy(req.password)
       THEN VaultRefused("createAccount", 400, token, 0)
     ELSE IF encryptedPassword.threw \/ encryptedNotes.threw
       THEN VaultRefused("createAccount", 500, token, 0)
     \* the CHECK on LENGTH(site_name) fails the INSERT
     ELSE IF cleanSiteName = "" THEN VaultRefused("createAccount", 500, token, 0)
     ELSE
       /\ nextAccountId <= MaxAccounts
       /\ accounts' = accounts \cup {row}
       /\ nextAccountId' = nextAccountId + 1
       /\ returned' = {row}
       /\ body' = Response(201, "", ListedColumns(row))
       /\ ev' = Event("createAccount", 201, token.userId, "", {}, {}, row.id)

\* PUT /accounts/:id; req.fields names the fields the body defines
UpdateAccount(token, id, req, rand) ==
  LET gate == VaultGate(token, NoLimit)
      rows == OwnedAccounts(accounts, id, token.userId)
      encryptedPassword == IF "password" \in req.fields
                             THEN encryptData(req.password, rand[1])
                             ELSE Returned(<<>>)
      encryptedNotes == IF "notes" \in req.fields /\ ~Falsy(req.notes)
                          THEN encryptData(req.notes, rand[2])
                          ELSE Returned(NullValue)
      set(r) == [r EXCEPT
                   !.site_name = IF "siteName" \in req.fields
                                   THEN sanitizeInput(req.siteName) ELSE @,
                   !.password_encrypted = IF "password" \in req.fields
                                            THEN encryptedPassword.value ELSE @,
                   !.notes_encrypted = IF "notes" \in req.fields
                                         THEN encryptedNotes.value ELSE @]
      updated == {IF r.id = id THEN set(r) ELSE r : r \in accounts}
  IN
  /\ VaultFrame
  /\ UNCHANGED exportLog
  /\ call' = [fn |-> "updateAccount", arg |-> req]
  /\ requestCounts' = gate.counts
  /\ IF gate.status # 0 THEN VaultRefused("updateAccount", gate.status, token, id)
     ELSE IF rows = {} THEN VaultRefused("updateAccount", 404, token, id)
     ELSE IF encryptedPassword.threw \/ encryptedNotes.threw
       THEN VaultRefused("updateAccount", 500, token, id)
     ELSE IF req.fields = {} THEN VaultRefused("updateAccount", 400, token, id)
     \* an empty site_name fails the CHECK of the table
     ELSE IF \E r \in updated : r.site_name = ""
       THEN VaultRefused("updateAccount", 500, token, id)
     ELSE
       /\ accounts' = updated
       /\ returned' = OwnedAccounts(updated, id, token.userId)
       /\ body' = Response(200, "", {ListedColumns(r) : r \in returned'})
       /\ ev' = Event("updateAccount", 200, token.userId, "", {}, {}, id)
       /\ UNCHANGED nextAccountId

\* DELETE /accounts/:id
DeleteAccount(token, id) ==
  LET gate == VaultGate(token, NoLimit)
      rows == OwnedAccounts(accounts, id, token.userId)
  IN
  /\ VaultFrame
  /\ UNCHANGED exportLog
  /\ call' = [fn |-> "deleteAccount"]
  /\ requestCounts' = gate.counts
  /\ IF gate.status # 0 THEN VaultRefused("deleteAccount", gate.status, token, id)
     ELSE IF rows = {} THEN VaultRefused("deleteAccount", 404, token, id)
     ELSE
       /\ accounts' = {r \in accounts : r.id # id}
       /\ returned' = {}
       /\ body' = Response(200, "", <<>>)
       /\ ev' = Event("deleteAccount", 200, token.userId, "", {}, {}, id)
       /\ UNCHANGED nextAccountId

\* a test that lets a short password through
PasswordMissing(exportPassword) == exportPassword = ""

\* !exportPassword || exportPassword.length < 8
WeakExportPassword(exportPassword) ==
  exportPassword = "" \/ Len(exportPassword) < MinExportPasswordLength

\* an element of an accounts array that is null
NullRecord == [null |-> TRUE]

\* the account exportVault writes for a row, null when a decryption throws
ExportedAccount(r) ==
  LET password == decryptData(r.password_encrypted)
      notes == IF Falsy(r.notes_encrypted) THEN Returned(NullValue)
               ELSE decryptData(r.notes_encrypted)
  IN IF password.threw \/ notes.threw THEN NullRecord
     ELSE [siteName |-> r.site_name, password |-> password.value, notes |-> notes.value]

\* POST /export; exportLog is written by the specification that counts the
\* requests the limiter admits
ExportVault(token, exportPassword) ==
  LET gate == VaultGate(token, TransferLimit)
      rows == {r \in accounts : r.user_id = token.userId}
      ordered == OrderBySiteName(rows)
      mapped == [i \in 1..Len(ordered) |-> ExportedAccount(ordered[i])]
      decryptedAccounts == SelectSeq(mapped, LAMBDA acc : DOMAIN acc # DOMAIN NullRecord)
  IN
  /\ VaultFrame
  /\ call' = [fn |-> "exportVault", arg |-> [exportPassword |-> exportPassword]]
  /\ requestCounts' = gate.counts
  /\ IF gate.status # 0 THEN VaultRefused("exportVault", gate.status, token, 0)
     ELSE IF WeakExportPassword(exportPassword) \/ rows = {}
       THEN VaultRefused("exportVault", 400, token, 0)
     ELSE
       /\ returned' = rows
       /\ body' = Response(200, "",
                    [exportData |-> encryptExportData(Bundle(decryptedAccounts),
                                                      exportPassword, now),
                     totalAccounts |-> Len(decryptedAccounts)])
       /\ ev' = Event("exportVault", 200, token.userId, "", {}, {}, 0)
       /\ UNCHANGED <<accounts, nextAccountId>>

\* one turn of the loop in the import transaction: acc holds the table, the
\* next rowid, the counters, the reasons, the number of IVs drawn, and
\* whether an exception left the loop
ImportAccount(account, userId, rand, acc) ==
  \* account.siteName on null throws in the try and again in the catch
  IF DOMAIN account = DOMAIN NullRecord THEN [acc EXCEPT !.threw = TRUE]
  ELSE IF account.siteName = "" \/ Falsy(account.password)
    THEN [acc EXCEPT !.skippedCount = @ + 1,
                     !.errors = Append(@, "Skipped account: missing required fields")]
  ELSE
    LET encryptedPassword == encryptData(account.password, rand[(acc.drawn % Len(rand)) + 1])
        withNotes == ~Falsy(account.notes)
        encryptedNotes == IF withNotes
                            THEN encryptData(account.notes,
                                             rand[((acc.drawn + 1) % Len(rand)) + 1])
                            ELSE Returned(NullValue)
        drawn == acc.drawn + (IF withNotes THEN 2 ELSE 1)
    IN
    IF encryptedPassword.threw \/ encryptedNotes.threw \/ account.siteName = Unbindable
      THEN [acc EXCEPT !.skippedCount = @ + 1,
                       !.errors = Append(@, "Error importing " \o account.siteName),
                       !.drawn = drawn]
    ELSE [acc EXCEPT !.rows = @ \cup {AccountRow(acc.nextId, userId, account.siteName,
                                                   encryptedPassword.value,
                                                   encryptedNotes.value)},
                     !.nextId = @ + 1,
                     !.importedCount = @ + 1,
                     !.drawn = drawn]

RECURSIVE ImportLoop(_, _, _, _)
ImportLoop(list, userId, rand, acc) ==
  IF list = <<>> \/ acc.threw THEN acc
  ELSE ImportLoop(Tail(list), userId, rand, ImportAccount(Head(list), userId, rand, acc))

\* a transaction that clears the identity's rows whatever the mode
importTransactionAlwaysClear(list, shouldClear, userId, rand, A, nextId) ==
  ImportLoop(list, userId, rand,
             [rows |-> {r \in A : r.user_id # userId},
              nextId |-> nextId, importedCount |-> 0, skippedCount |-> 0,
              errors |-> <<>>, drawn |-> 0, threw |-> FALSE])

\* a transaction that clears nothing whatever the mode
importTransactionNeverClear(list, shouldClear, userId, rand, A, nextId) ==
  ImportLoop(list, userId, rand,
             [rows |-> A,
              nextId |-> nextId, importedCount |-> 0, skippedCount |-> 0,
              errors |-> <<>>, drawn |-> 0, threw |-> FALSE])

\* importTransaction(accounts, shouldClear)
importTransaction(list, shouldClear, userId, rand, A, nextId) ==
  ImportLoop(list, userId, rand,
             [rows |-> IF shouldClear THEN {r \in A : r.user_id # userId} ELSE A,
              nextId |-> nextId, importedCount |-> 0, skippedCount |-> 0,
              errors |-> <<>>, drawn |-> 0, threw |-> FALSE])

\* POST /import: an exception that leaves the transaction rolls it back and
\* is answered by the handler's outer catch
ImportVault(token, importData, importPassword, mergeMode, rand) ==
  LET gate == VaultGate(token, TransferLimit)
      decoded == ImportDecode(importData, importPassword)
      result == importTransaction(decoded.data, mergeMode = "replace", token.userId,
                                  rand, accounts, nextAccountId)
  IN
  /\ VaultFrame
  /\ UNCHANGED exportLog
  /\ call' = [fn |-> "importVault",
              arg |-> [importData |-> importData, importPassword |-> importPassword,
                       mergeMode |-> mergeMode]]
  /\ requestCounts' = gate.counts
  /\ IF gate.status # 0 THEN VaultRefused("importVault", gate.status, token, 0)
     ELSE IF decoded.status # 0
       THEN /\ ev' = Event("importVault", decoded.status, token.userId, "", {}, {}, 0)
            /\ body' = decoded
            /\ UNCHANGED <<accounts, nextAccountId>>
            /\ returned' = {}
     ELSE IF result.threw
       THEN /\ ev' = Event("importVault", 500, token.userId, "", {}, {}, 0)
            /\ body' = Response(500, "Terjadi kesalahan saat mengimpor vault", <<>>)
            /\ UNCHANGED <<accounts, nextAccountId>>
            /\ returned' = {}
     ELSE
       /\ accounts' = result.rows
       /\ nextAccountId' = result.nextId
       /\ returned' = {}
       /\ body' = Response(200, "", [imported |-> result.importedCount,
                                     skipped |-> result.skippedCount,
                                     errors |-> result.errors])
       /\ ev' = Event("importVault", 200, token.userId, "", {}, {}, result.importedCount)

\* the requests clients send in the specifications that are about who may
\* reach a row: one secret, one IV, export passwords of both kinds, and
\* import files that fail to decrypt, hold no account, hold an account
\* without siteName, or replace the vault
FixedRand == <<"iv1", "iv1">>
CreateRequest(siteName) == [siteName |-> siteName, password |-> <<"a">>, notes |-> NullValue]
RenameRequest(siteName) ==
  [fields |-> {"siteName"}, siteName |-> siteName, password |-> <<>>, notes |-> NullValue]
ImportedAccount(siteName) == [siteName |-> siteName, password |-> <<"a">>, notes |-> NullValue]
ImportFile(list, passphrase) == encryptExportData(Bundle(list), passphrase, 0)
ExportPasswords == {"short", "passphrase1"}
ImportRequests ==
  {[importData |-> ImportFile(<<ImportedAccount("a")>>, "passphrase2"), mergeMode |-> "merge"],
   [importData |-> ImportFile(<<>>, "passphrase1"), mergeMode |-> "merge"],
   [importData |-> ImportFile(<<ImportedAccount(""), ImportedAccount("b")>>, "passphrase1"),
    mergeMode |-> "merge"],
   [importData |-> ImportFile(<<ImportedAccount("a")>>, "passphrase1"),
    mergeMode |-> "replace"]}

\* a request to any vault route
VaultRequest(token) ==
  \/ WithinRequests(token) /\ GetAllAccounts(token)
  \/ \E id \in 1..MaxAccounts : GetAccountById(token, id)
  \/ \E n \in SiteNames \cup {""} :
       WithinRequests(token) /\ CreateAccount(token, CreateRequest(n), FixedRand)
  \/ \E id \in 1..MaxAccounts, n \in SiteNames \cup {""} :
       UpdateAccount(token, id, RenameRequest(n), FixedRand)
  \/ \E id \in 1..MaxAccounts : DeleteAccount(token, id)
  \/ \E p \in ExportPasswords :
       WithinRequests(token) /\ ExportVault(token, p) /\ UNCHANGED exportLog
  \/ \E r \in ImportRequests :
       WithinRequests(token)
         /\ ImportVault(token, r.importData, "passphrase1", r.mergeMode, FixedRand)
         /\ WithinAccounts

VaultOps == {"getAllAccounts", "getAccountById", "createAccount", "updateAccount",
             "deleteAccount", "exportVault", "importVault"}

Next ==
  \/ \E ip \in Ips, ident \in UserIds \cup {Unknown}, password \in Passwords :
       LoginStart(ip, ident, password)
  \/ \E req \in BagToSet(pending) : IsLoginRequest(req) /\ LoginFinish(req)
  \/ \E ip \in Ips, username \in {"", UsernameOf(1), UsernameOf(NextUserId)},
        password \in {"", "right"} : RegisterStart(ip, username, password)
  \/ \E req \in BagToSet(pending) : ~IsLoginRequest(req) /\ RegisterFinish(req)
  \/ \E rt \in RefreshTokens : Refresh(rt)
  \/ \E token \in AccessTokens : Logout(token)
  \/ \E token \in AccessTokens : LogoutAll(token)
  \/ Cleanup
  \/ \E u \in UserIds : Deactivate(u)
  \/ \E token \in AccessTokens : VaultRequest(token)
  \/ \E d \in TickSizes : Tick(d)

Spec == Init /\ [][Next]_vars

LockoutNext ==
  \/ \E ip \in Ips, ident \in UserIds \cup {Unknown}, password \in Passwords :
       LoginStart(ip, ident, password)
  \/ \E req \in BagToSet(pending) : LoginFinish(req)
  \/ \E d \in {1, LockoutSeconds} : Tick(d)

LockoutSpec == Init /\ [][LockoutNext]_vars

SessionNext ==
  \/ \E ip \in Ips, ident \in UserIds :
       pending = EmptyBag /\ LoginStart(ip, ident, PasswordOf(ident))
  \/ \E req \in BagToSet(pending) : LoginFinish(req)
  \/ \E rt \in RefreshTokens : Refresh(rt)
  \/ \E token \in AccessTokens : Logout(token)
  \/ \E token \in AccessTokens : LogoutAll(token)
  \/ Cleanup
  \/ \E d \in {1, AccessTtlSeconds} : Tick(d)

SessionSpec == Init /\ [][SessionNext]_vars

\* every token a client holds, whatever endpoint it sends it to
AnyTokens == AccessTokens \cup RefreshTokens

\* Token lifetime: logins one at a time with the right password, any held
\* token sent to /auth/refresh, the owner deactivated, and the clock running
\* past the lifetime of the refresh token
TokenNext ==
  \/ \E ip \in Ips, ident \in UserIds :
       pending = EmptyBag /\ LoginStart(ip, ident, PasswordOf(ident))
  \/ \E req \in BagToSet(pending) : LoginFinish(req)
  \/ \E rt \in AnyTokens : Refresh(rt)
  \/ \E token \in AccessTokens : Logout(token)
  \/ Cleanup
  \/ \E u \in UserIds : Deactivate(u)
  \/ \E d \in {1, RefreshTtlSeconds} : Tick(d)

TokenSpec == Init /\ [][TokenNext]_vars

\* Vault under lockout: one login with the right password, then logins with
\* the wrong one, one at a time; vault requests with the token held; the
\* clock moving by the lockout time once the login limiter's window is used up
LockVaultNext ==
  \/ \E ip \in Ips, ident \in UserIds :
       pending = EmptyBag /\ sessions = {} /\ LoginStart(ip, ident, PasswordOf(ident))
  \/ \E ip \in Ips, ident \in UserIds :
       pending = EmptyBag /\ sessions # {} /\ LoginStart(ip, ident, "wrong")
  \/ \E req \in BagToSet(pending) : LoginFinish(req)
  \/ \E token \in AccessTokens : WithinRequests(token) /\ GetAllAccounts(token)
  \/ \E token \in AccessTokens, id \in 1..MaxAccounts : GetAccountById(token, id)
  \/ \E token \in AccessTokens :
       WithinRequests(token) /\ CreateAccount(token, CreateRequest("a"), FixedRand)
  \/ \E token \in AccessTokens, id \in 1..MaxAccounts :
       UpdateAccount(token, id, RenameRequest("a"), FixedRand)
  \/ \E token \in AccessTokens, id \in 1..MaxAccounts : DeleteAccount(token, id)
  \/ \E token \in AccessTokens :
       WithinRequests(token) /\ ExportVault(token, "passphrase1") /\ UNCHANGED exportLog
  \/ \E token \in AccessTokens :
       WithinRequests(token)
         /\ ImportVault(token, ImportFile(<<ImportedAccount("a")>>, "passphrase1"),
                        "passphrase1", "merge", FixedRand)
         /\ WithinAccounts
  \/ (\E ip \in Ips : ~loginRateLimiter(requestCounts, ip, now).admit)
       /\ Tick(LockoutSeconds)

LockVaultSpec == Init /\ [][LockVaultNext]_vars

\* Two owners: the state after a server start on a database that holds two
\* registered identities, each of which then logged in once, at second 0
Owners == {1, 2}

OwnerSession(u) ==
  [id |-> u, user_id |-> u,
   token_hash |-> hashToken(generateAccessToken(u, 0)),
   refresh_token_hash |-> generateRefreshToken(u, u, 0).tokenHash,
   expires_at |-> toISOString(generateAccessToken(u, 0).exp),
   created_at |-> 0,
   is_valid |-> TRUE]

VaultInit ==
  /\ now = 0
  /\ ticks = 0
  /\ users = [u \in Owners |->
                [password_hash |-> hashPassword(PasswordOf(u)),
                 login_attempts |-> 0,
                 locked_until |-> {},
                 is_active |-> TRUE]]
  /\ sessions = {OwnerSession(u) : u \in Owners}
  /\ nextSessionId = 3
  /\ requestCounts = [k \in Ips |-> [count |-> 2, resetTime |-> LimiterWindowSeconds]]
  /\ pending = EmptyBag
  /\ revoked = {}
  /\ revokedRefresh = {}
  /\ ev = Event("login_done", 200, 2, "right", {generateAccessToken(2, 0)}, {}, 0)
  /\ accounts = {}
  /\ nextAccountId = 1
  /\ returned = {}
  /\ body = NoBody
  /\ call = NoCall
  /\ exportLog = <<>>
  /\ NoClient

VaultNext ==
  \/ \E token \in AccessTokens : WithinRequests(token) /\ GetAllAccounts(token)
  \/ \E token \in AccessTokens, id \in 1..MaxAccounts : GetAccountById(token, id)
  \/ \E token \in AccessTokens, n \in SiteNames \cup {""} :
       WithinRequests(token) /\ CreateAccount(token, CreateRequest(n), FixedRand)
  \/ \E token \in AccessTokens, id \in 1..MaxAccounts, n \in SiteNames \cup {""} :
       UpdateAccount(token, id, RenameRequest(n), FixedRand)
  \/ \E token \in AccessTokens, id \in 1..MaxAccounts : DeleteAccount(token, id)
  \/ \E token \in AccessTokens, p \in ExportPasswords :
       WithinRequests(token) /\ ExportVault(token, p) /\ UNCHANGED exportLog
  \/ \E token \in AccessTokens, r \in ImportRequests :
       WithinRequests(token)
         /\ ImportVault(token, r.importData, "passphrase1", r.mergeMode, FixedRand)
         /\ WithinAccounts

VaultSpec == VaultInit /\ [][VaultNext]_vars

\* The public routes: logins and registrations one at a time, with known
\* and unknown identifiers, right and wrong passwords, and a free username;
\* the clock moving by seconds
AuthNext ==
  \/ \E ip \in Ips, ident \in DOMAIN users \cup {Unknown}, password \in Passwords :
       pending = EmptyBag /\ LoginStart(ip, ident, password)
  \/ \E req \in BagToSet(pending) : IsLoginRequest(req) /\ LoginFinish(req)
  \/ \E ip \in Ips :
       pending = EmptyBag /\ RegisterStart(ip, UsernameOf(NextUserId), "right")
  \/ \E req \in BagToSet(pending) : ~IsLoginRequest(req) /\ RegisterFinish(req)
  \/ pending = EmptyBag /\ Tick(1)

AuthSpec == Init /\ [][AuthNext]_vars

\* The limiter of the public routes: logins with an unknown identifier and
\* with the right password, registrations without a username and with a
\* taken one, the clock moving to the end of the limiter's window and past it
LoginLimiterNext ==
  \/ \E ip \in Ips : pending = EmptyBag /\ LoginStart(ip, Unknown, "wrong")
  \/ \E ip \in Ips, ident \in UserIds :
       pending = EmptyBag /\ LoginStart(ip, ident, PasswordOf(ident))
  \/ \E req \in BagToSet(pending) : LoginFinish(req)
  \/ \E ip \in Ips, username \in {"", UsernameOf(1)} :
       RegisterStart(ip, username, "right")
  \/ \E d \in {1, LimiterWindowSeconds} : Tick(d)

LoginLimiterSpec == Init /\ [][LoginLimiterNext]_vars

\* Several devices: a database that holds two registered identities and no
\* session; logins one at a time with the right password, refreshes and
\* logouts with the tokens held, the clock moving by seconds
DeviceInit ==
  /\ now = 0
  /\ ticks = 0
  /\ users = [u \in Owners |->
                [password_hash |-> hashPassword(PasswordOf(u)),
                 login_attempts |-> 0,
                 locked_until |-> {},
                 is_active |-> TRUE]]
  /\ sessions = {}
  /\ nextSessionId = 1
  /\ requestCounts = [k \in {} |-> 0]
  /\ pending = EmptyBag
  /\ revoked = {}
  /\ revokedRefresh = {}
  /\ ev = Event("start", 0, Unknown, "", {}, {}, 0)
  /\ accounts = {}
  /\ nextAccountId = 1
  /\ returned = {}
  /\ body = NoBody
  /\ call = NoCall
  /\ exportLog = <<>>
  /\ NoClient

DeviceNext ==
  \/ \E ip \in Ips, ident \in Owners :
       pending = EmptyBag /\ LoginStart(ip, ident, PasswordOf(ident))
  \/ \E req \in BagToSet(pending) : LoginFinish(req)
  \/ \E rt \in RefreshTokens : Refresh(rt)
  \/ \E token \in AccessTokens : Logout(token)
  \/ pending = EmptyBag /\ Tick(1)

DeviceSpec == DeviceInit /\ [][DeviceNext]_vars

\* What the vault stores: one identity logged in at second 0; accounts
\* created, updated and imported with secrets of several kinds (an unpaired
\* surrogate among them), import files whose records are complete, lack a
\* field, cannot be bound or are null, and the reads of the vault
StoreInit ==
  /\ now = 0
  /\ ticks = 0
  /\ users = [u \in Owners |->
                [password_hash |-> hashPassword(PasswordOf(u)),
                 login_attempts |-> 0,
                 locked_until |-> {},
                 is_active |-> TRUE]]
  /\ sessions = {OwnerSession(1)}
  /\ nextSessionId = 2
  /\ requestCounts = [k \in Ips |-> [count |-> 1, resetTime |-> LimiterWindowSeconds]]
  /\ pending = EmptyBag
  /\ revoked = {}
  /\ revokedRefresh = {}
  /\ ev = Event("login_done", 200, 1, "right", {generateAccessToken(1, 0)}, {}, 0)
  /\ accounts = {}
  /\ nextAccountId = 1
  /\ returned = {}
  /\ body = NoBody
  /\ call = NoCall
  /\ exportLog = <<>>
  /\ NoClient

Rand == <<"iv1", "iv2">>

CreateRequests ==
  {[siteName |-> n, password |-> p, notes |-> x] :
     n \in {"a", " "}, p \in {<<>>, <<"a">>, <<"hi">>}, x \in {NullValue, <<"a">>}}

UpdateRequests ==
  {[fields |-> {}, siteName |-> "", password |-> <<>>, notes |-> NullValue],
   [fields |-> {"password"}, siteName |-> "", password |-> <<"hi">>, notes |-> NullValue],
   [fields |-> {"password"}, siteName |-> "", password |-> <<>>, notes |-> NullValue],
   [fields |-> {"notes"}, siteName |-> "", password |-> <<>>, notes |-> NullValue],
   [fields |-> {"siteName", "notes"}, siteName |-> "b", password |-> <<>>, notes |-> <<"a">>]}

NotedAccount == [siteName |-> "b", password |-> <<"hi">>, notes |-> <<"a">>]

ImportRecords ==
  {ImportedAccount("a"),
   NotedAccount,
   ImportedAccount(""),
   [siteName |-> "a", password |-> NullValue, notes |-> <<"a">>],
   ImportedAccount(Unbindable),
   NullRecord}

ImportLists == UNION {[1..n -> ImportRecords] : n \in 1..MaxAccounts}

StoreNext ==
  \/ \E token \in AccessTokens : WithinRequests(token) /\ GetAllAccounts(token)
  \/ \E token \in AccessTokens, id \in 1..MaxAccounts : GetAccountById(token, id)
  \/ \E token \in AccessTokens, req \in CreateRequests :
       WithinRequests(token) /\ CreateAccount(token, req, Rand)
  \/ \E token \in AccessTokens, id \in 1..MaxAccounts, req \in UpdateRequests :
       UpdateAccount(token, id, req, Rand)
  \/ \E token \in AccessTokens :
       WithinRequests(token)
         /\ ImportVault(token, ImportFile(<<ImportedAccount(""), NotedAccount>>, "passphrase1"),
                        "passphrase1", "merge", Rand)
         /\ WithinAccounts

StoreSpec == StoreInit /\ [][StoreNext]_vars

\* The import transaction: a vault that holds one account of another
\* identity and none or one of the identity that imports, and one import
\* request, its file and mode drawn at the start, followed by reads of the
\* vault
ImportInit ==
  /\ now = 0
  /\ ticks = 0
  /\ users = [u \in Owners |->
                [password_hash |-> hashPassword(PasswordOf(u)),
                 login_attempts |-> 0,
                 locked_until |-> {},
                 is_active |-> TRUE]]
  /\ sessions = {OwnerSession(1)}
  /\ nextSessionId = 2
  /\ requestCounts = [k \in Ips |-> [count |-> 1, resetTime |-> LimiterWindowSeconds]]
  /\ pending = EmptyBag
  /\ revoked = {}
  /\ revokedRefresh = {}
  /\ ev = Event("login_done", 200, 1, "right", {generateAccessToken(1, 0)}, {}, 0)
  /\ \E n \in 0..1 :
       /\ accounts = {AccountRow(1, 2, "b", encryptData(<<"a">>, "iv2").value, NullValue)}
                        \cup {AccountRow(i + 1, 1, "a", encryptData(<<"a">>, "iv1").value,
                                         NullValue) : i \in 1..n}
       /\ nextAccountId = n + 2
  /\ returned = {}
  /\ body = NoBody
  /\ call \in [fn : {"request"}, list : ImportLists, mergeMode : {"merge", "replace"}]
  /\ exportLog = <<>>
  /\ NoClient

ImportNext ==
  \/ \E token \in AccessTokens :
       /\ call.fn = "request"
       /\ ImportVault(token, ImportFile(call.list, "passphrase1"), "passphrase1",
                      call.mergeMode, Rand)
  \/ \E token \in AccessTokens :
       call.fn # "request" /\ WithinRequests(token) /\ GetAllAccounts(token)
  \/ \E token \in AccessTokens, id \in 1..MaxAccounts :
       call.fn # "request" /\ GetAccountById(token, id)

ImportSpec == ImportInit /\ [][ImportNext]_vars

\* The limiter of the vault routes: one identity logged in at second 0; its
\* export requests, each noted in exportLog when the limiter admits it; a
\* request to one of the other limited routes when it opens a window of the
\* limiter; the clock moving just past the window of the account routes
OpensWindow(token) ==
  LET key == ToString(token.userId) IN
  IF key \in DOMAIN requestCounts THEN now > requestCounts[key].resetTime ELSE TRUE

LoggedExport(token, exportPassword) ==
  /\ ExportVault(token, exportPassword)
  /\ exportLog' = IF VaultGate(token, TransferLimit).status = 0
                    THEN Append(exportLog, [user |-> token.userId, at |-> now])
                    ELSE exportLog

LimiterNext ==
  \/ \E token \in AccessTokens, p \in ExportPasswords : LoggedExport(token, p)
  \/ \E token \in AccessTokens : OpensWindow(token) /\ GetAllAccounts(token)
  \/ \E token \in AccessTokens :
       OpensWindow(token) /\ CreateAccount(token, CreateRequest("a"), FixedRand)
  \/ \E token \in AccessTokens :
       OpensWindow(token) /\ ImportVault(token, <<>>, "passphrase1", "merge", FixedRand)
  \/ Tick(AccountsWindowSeconds + 1)

LimiterSpec == StoreInit /\ [][LimiterNext]_vars

\* The secret cipher called on its own: encryptData on a plaintext, with the
\* IV it draws, then decryptData on what it returned
CallFrame == UNCHANGED <<now, ticks, users, sessions, nextSessionId, requestCounts,
                         pending, revoked, revokedRefresh, ev, vaultVars, exportLog,
                         clientVars>>

CipherInit ==
  /\ Idle
  /\ call \in {[fn |-> "encryptData", arg |-> <<P, iv>>, of |-> P] :
                 P \in Plaintexts, iv \in Ivs}

EncryptData ==
  /\ call.fn = "encryptData"
  /\ body' = encryptData(call.arg[1], call.arg[2])
  /\ call' = IF body'.threw THEN [call EXCEPT !.fn = "threw"]
             ELSE [fn |-> "decryptData", arg |-> body'.value, of |-> call.of]
  /\ CallFrame

DecryptData ==
  /\ call.fn = "decryptData"
  /\ body' = decryptData(call.arg)
  /\ call' = [call EXCEPT !.fn = IF body'.threw THEN "threw" ELSE "decrypted"]
  /\ CallFrame

CipherNext == EncryptData \/ DecryptData

\* The credential hasher called on its own: verifyPassword on a password and
\* a stored digest, which is the digest of some password, or is malformed,
\* or is missing
StoredDigests == {hashPassword(P) : P \in Plaintexts} \cup {MalformedDigest, NullDigest}

HasherInit ==
  /\ Idle
  /\ call \in {[fn |-> "verifyPassword", arg |-> <<P, d>>, of |-> d] :
                 P \in Plaintexts, d \in StoredDigests}

VerifyPassword ==
  /\ call.fn = "verifyPassword"
  /\ body' = Returned(verifyPassword(call.arg[1], call.arg[2]))
  /\ call' = [call EXCEPT !.fn = "verified"]
  /\ CallFrame

HasherSpec == HasherInit /\ [][VerifyPassword]_vars

\* The vault codec called on its own: a bundle of decrypted accounts is
\* encrypted under one passphrase and the package is imported under the same
\* or another one; and packages made by hand are imported: text that is no
\* JSON, a damaged ciphertext, a payload that is no JSON, a payload without
\* `accounts`, and the payload null
Passphrases == {"passphrase1", "passphrase2"}

DecryptedAccounts ==
  {[siteName |-> "a", password |-> <<"a">>, notes |-> NullValue],
   [siteName |-> "b", password |-> <<"a", "a">>, notes |-> <<"a">>],
   [siteName |-> "b", password |-> <<"fffd">>, notes |-> NullValue]}

AccountLists == UNION {[1..n -> DecryptedAccounts] : n \in 1..MaxAccounts}

HandMade(passphrase) ==
  {[cause |-> "corrupted", importData |-> GarbageText],
   [cause |-> "corrupted",
    importData |-> Json(ExportPackage("1.0", toISOString(0), <<"damaged">>))],
   [cause |-> "unparseable",
    importData |-> Json(ExportPackage("1.0", toISOString(0),
                                      CryptoJsEncrypt(GarbageText, passphrase)))],
   [cause |-> "missingAccounts",
    importData |-> Json(ExportPackage("1.0", toISOString(0),
                                      CryptoJsEncrypt(Json(NoAccountsPayload), passphrase)))],
   [cause |-> "nullPayload",
    importData |-> Json(ExportPackage("1.0", toISOString(0),
                                      CryptoJsEncrypt(Json(NullPayload), passphrase)))]}

CodecInit ==
  /\ Idle
  /\ call \in
       {[fn |-> "encryptExportData", arg |-> <<Bundle(l), P>>,
         of |-> [cause |-> IF P = P2 THEN "samePassphrase" ELSE "wrongPassphrase",
                 accounts |-> l, passphrase |-> P2]] :
           l \in AccountLists, P \in Passphrases, P2 \in Passphrases}
       \cup
       UNION {{[fn |-> "importVault", arg |-> <<c.importData, P>>,
                of |-> [cause |-> c.cause, accounts |-> <<>>, passphrase |-> P]] :
                  c \in HandMade(P)} : P \in Passphrases}

EncryptExportData ==
  /\ call.fn = "encryptExportData"
  /\ body' = Returned(encryptExportData(call.arg[1], call.arg[2], now))
  /\ call' = [call EXCEPT !.fn = "importVault",
                          !.arg = <<body'.value, call.of.passphrase>>]
  /\ CallFrame

ImportDecodeCall ==
  /\ call.fn = "importVault"
  /\ body' = ImportDecode(call.arg[1], call.arg[2])
  /\ call' = [call EXCEPT !.fn = "decoded"]
  /\ CallFrame

CodecNext == EncryptExportData \/ ImportDecodeCall

CodecSpec == CodecInit /\ [][CodecNext]_vars

CipherSpec == CipherInit /\ [][CipherNext]_vars

----------------------------------------------------------------------------
\* Session claims, checked under SessionSpec

\* C1: once invalidateSession(token) has returned, no later authenticateToken
\* check of that token passes, whatever logins, refreshes and cleanups
\* happen in between.
C1_RevokedTokenStaysRejected ==
  \A token \in revoked : ~authenticateToken(token, sessions, users, now)

\* C2: once invalidateSession or invalidateAllUserSessions has returned,
\* refreshAccessToken fails, and returns no access token, for the refresh
\* token of every session the revocation hit.
C2_RevokedRefreshFails ==
  \A rt \in revokedRefresh :
    LET res == refreshAccessToken(rt, sessions, users, now) IN
    ~res.success /\ res.accessToken = {}

\* a refresh was just refused, and every refresh token there is belongs to a
\* session that a revocation hit
C2_Witness ==
  /\ ev.op = "refresh"
  /\ ev.status = 401
  /\ revokedRefresh # {}
  /\ RefreshTokens = revokedRefresh
  /\ \E s \in sessions : ~s.is_valid

\* C10: after a successful refreshAccessToken the access token the session
\* held before is no longer accepted by validateSession, and the token just
\* returned is accepted.
C10_RefreshRotatesDigest ==
  (ev.op = "refresh" /\ ev.status = 200) =>
    /\ \A old \in ev.old : ~validateSession(old, sessions, users, now)
    /\ \A new \in ev.access : validateSession(new, sessions, users, now)

----------------------------------------------------------------------------
\* Lockout claims, checked under LockoutSpec

LoginEntryOps == {"login", "login_locked", "login_verify"}

\* the step completes the suspended login request req
Completes(req) ==
  /\ req \in BagToSet(pending)
  /\ pending' = pending (-) SetToBag({req})
  /\ ev'.op = "login_done"
  /\ ev'.user = req.user
  /\ ev'.password = req.password
  /\ ev'.snap = req.login_attempts

LockedNow(u) == \E l \in users[u].locked_until : l > now

LockExpired(u) ==
  users[u].locked_until # {} /\ \A l \in users[u].locked_until : l <= now

\* C3: a login request that arrives while the identity's locked_until is in
\* the future is rejected (403 locked once the limiter admits it, 429
\* otherwise), no verifyPassword is started for it, and login_attempts and
\* locked_until stay as they were.
C3_LockedLoginRejectedUntouched ==
  [][\A u \in UserIds :
       (ev'.op \in LoginEntryOps /\ ev'.user = u /\ LockedNow(u)) =>
          /\ ev'.status \in {403, 429}
          /\ (requestCounts' # requestCounts => ev'.op = "login_locked")
          /\ pending' = pending
          /\ users' = users]_vars

\* a login was just refused as locked
C3_Witness ==
  /\ ev.op = "login_locked"
  /\ ev.status = 403
  /\ \E l \in users[ev.user].locked_until : l > now
  /\ users[ev.user].login_attempts >= MaxLoginAttempts

\* C4: a failed login that no other login of the identity overtook (the
\* counter it read is the counter stored) adds exactly 1 to login_attempts;
\* locked_until is left alone while the new count is below 5, and from the
\* failure that brings the count to 5 it is the current time plus 30 minutes.
C4_FailedLoginCountsAndLocks ==
  [][\A req \in BagToSet(pending) :
       (/\ Completes(req)
        /\ ev'.status = 401
        /\ req.login_attempts = users[req.user].login_attempts) =>
          LET before == users[req.user]
              after == users'[req.user]
          IN
          /\ after.login_attempts = before.login_attempts + 1
          /\ after.login_attempts < 5 => after.locked_until = before.locked_until
          /\ after.login_attempts >= 5 => after.locked_until = {now + 1800}]_vars

\* the fifth failure in a row has just locked the identity
C4_Witness ==
  /\ ev.op = "login_done"
  /\ ev.status = 401
  /\ ev.snap = 4
  /\ users[ev.user].login_attempts = 5
  /\ users[ev.user].locked_until = {now + 1800}

\* C5: no failed login is lost: whatever the interleaving, each completed
\* wrong-password login leaves login_attempts one higher than it found it.
C5_NoLostAttempt ==
  [][\A req \in BagToSet(pending) :
       (Completes(req) /\ ev'.status = 401) =>
          users'[req.user].login_attempts = users[req.user].login_attempts + 1]_vars

\* C6: while locked_until is in the future no step clears it and no step
\* adds a session of that identity, whatever the interleaving of logins.
C6_NoLoginWhileLocked ==
  [][\A u \in UserIds :
       LockedNow(u) =>
          /\ users'[u].locked_until # {}
          /\ {s \in sessions' : s.user_id = u} \subseteq sessions
          /\ ~(ev'.op = "login_done" /\ ev'.user = u /\ ev'.status = 200
               /\ pending' # pending)]_vars

\* C7: the first failed login submitted after locked_until has passed is
\* attempt 1 of a new window and does not lock the identity again.
C7_ExpiredLockOpensFreshWindow ==
  [][\A req \in BagToSet(pending) :
       (/\ Completes(req)
        /\ ev'.status = 401
        /\ LockExpired(req.user)
        /\ req.locked_until = users[req.user].locked_until
        /\ req.login_attempts = users[req.user].login_attempts) =>
          /\ users'[req.user].login_attempts = 1
          /\ ~(\E l \in users'[req.user].locked_until : l > now)]_vars

\* C8: a login whose password is the identity's password, once past the
\* active and lock checks, leaves login_attempts 0 and locked_until unset.
C8_SuccessResetsLockout ==
  [][\A req \in BagToSet(pending) :
       (Completes(req) /\ req.password = PasswordOf(req.user)) =>
          /\ users'[req.user].login_attempts = 0
          /\ users'[req.user].locked_until = {}]_vars

\* a login succeeded after failures had been counted
C8_Witness ==
  /\ ev.op = "login_done"
  /\ ev.status = 200
  /\ ev.password = PasswordOf(ev.user)
  /\ ev.snap > 0
  /\ users[ev.user].login_attempts = 0
  /\ users[ev.user].locked_until = {}

\* C9: for an identity locked by 5 failures, a login with the right password
\* submitted once locked_until has passed is not turned away (neither by
\* loginRateLimiter nor as locked), and it completes with 200, a session
\* and login_attempts 0.
C9_LockNeverPermanent ==
  [][/\ \A u \in UserIds :
          (/\ ev'.op \in LoginEntryOps
           /\ ev'.user = u
           /\ ev'.password = PasswordOf(u)
           /\ LockExpired(u)
           /\ users[u].login_attempts >= 5) => ev'.op = "login_verify"
     /\ \A req \in BagToSet(pending) :
          (/\ Completes(req)
           /\ req.password = PasswordOf(req.user)
           /\ req.locked_until # {}
           /\ req.login_attempts >= 5) =>
             /\ ev'.status = 200
             /\ ev'.access # {}
             /\ users'[req.user].login_attempts = 0]_vars

----------------------------------------------------------------------------
\* Token claims, checked under TokenSpec

\* C11: refreshAccessToken succeeds only for a token that is unexpired and
\* of type refresh, whose digest a valid session row holds, and whose owner
\* is active; otherwise it returns no access token and leaves every session
\* row (digest and expiry included) as it was.
C11_RefreshOnlyWhenEntitled ==
  \A rt \in AnyTokens :
    LET res == refreshAccessToken(rt, sessions, users, now)
        entitled ==
          /\ now < rt.exp
          /\ rt.type = "refresh"
          /\ \E s \in sessions : s.refresh_token_hash = rt.tokenHash /\ s.is_valid
          /\ users[rt.userId].is_active
    IN
    /\ res.success => entitled
    /\ ~res.success => (res.accessToken = {} /\ res.sessions = sessions)

\* a refresh token past its own expiry, whose session row is still valid,
\* has just been refused
C11_Witness ==
  /\ ev.op = "refresh"
  /\ ev.status = 401
  /\ \E rt \in RefreshTokens :
       /\ now >= rt.exp
       /\ \E s \in sessions : s.refresh_token_hash = rt.tokenHash /\ s.is_valid

----------------------------------------------------------------------------
\* Session store claims, checked under SessionSpec

\* C12: a login that reaches the issuing of its session adds exactly one
\* session row, valid and of that identity, whatever rows exist already.
C12_IssueAlwaysCreatesRecord ==
  [][\A req \in BagToSet(pending) :
       (Completes(req) /\ req.password = PasswordOf(req.user)) =>
          \E s \in sessions' :
             /\ s \notin sessions
             /\ s.is_valid
             /\ s.user_id = req.user
             /\ sessions' = sessions \cup {s}]_vars

\* C13: logoutAll reports exactly the number of the owner's rows that were
\* valid before the call, these are the rows the call changed, and after
\* it no row of the owner is valid.
C13_RevokeAllCountsAndRevokes ==
  [][(ev'.op = "logout_all" /\ ev'.status = 200) =>
       LET owner == ev'.user
           validBefore == {s \in sessions : s.user_id = owner /\ s.is_valid}
       IN
       /\ ev'.snap = Cardinality(validBefore)
       /\ sessions \ sessions' = validBefore
       /\ Cardinality(sessions') = Cardinality(sessions)
       /\ \A s \in sessions' : s.user_id = owner => ~s.is_valid]_vars

\* logout everywhere has just revoked one session while another row of the
\* owner had been revoked before
C13_Witness ==
  /\ ev.op = "logout_all"
  /\ ev.status = 200
  /\ ev.snap = 1
  /\ Cardinality({s \in sessions : s.user_id = ev.user /\ ~s.is_valid}) = 2

\* C14: invalidateSession applied a second time to the same token leaves
\* the session store as the first application left it.
C14_RevokeIdempotent ==
  \A token \in AccessTokens :
    LET once == invalidateSession(token, sessions) IN
    /\ invalidateSession(token, once) = once
    /\ \A s \in once : s.token_hash = hashToken(token) => ~s.is_valid

\* a token was revoked and its row, now invalid, is still in the store
C14_Witness ==
  /\ ev.op = "logout"
  /\ ev.status = 200
  /\ \E token \in revoked :
       \E s \in sessions : s.token_hash = hashToken(token) /\ ~s.is_valid

\* C15: a revoked session row is never made valid again, no access token
\* revoked with its row is accepted by validateSession afterwards, and no
\* refresh token of a revoked row refreshes afterwards, whatever logins,
\* refreshes, revocations and cleanups follow.
C15_RevokedIsTerminal ==
  [][/\ \A s \in sessions, s2 \in sessions' :
          (s2.id = s.id /\ ~s.is_valid) => ~s2.is_valid
     /\ \A token \in revoked : ~validateSession(token, sessions', users', now')
     /\ \A rt \in revokedRefresh :
          ~refreshAccessToken(rt, sessions', users', now').success]_vars

\* C16: authenticateToken accepts no access token at or after the token's
\* own exp, whatever the expires_at of the row that holds its digest.
C16_NoAcceptanceAfterExpiry ==
  \A token \in AccessTokens :
    now >= token.exp => ~authenticateToken(token, sessions, users, now)

\* a request with an expired token has just been refused although the row
\* for its digest is valid and its expires_at text still compares as later
C16_Witness ==
  /\ ev.op = "logout"
  /\ ev.status = 401
  /\ \E token \in AccessTokens :
       /\ now >= token.exp
       /\ validateSession(token, sessions, users, now)

\* C17, as stated: the row a login stores holds the digest of the access
\* token string and the digest of the refresh token string it issued.
C17_DigestsOfIssuedTokens ==
  [][(ev'.op = "login_done" /\ ev'.status = 200) =>
       \A s \in sessions' \ sessions :
          /\ \A a \in ev'.access : s.token_hash = hashToken(a)
          /\ s.refresh_token_hash = hashToken(RefreshTokenOfRow(s))]_vars

\* C17, amended: the row a login stores holds no token: token_hash is the
\* digest of the access token issued, by which validateSession finds the
\* row; refresh_token_hash is the digest of the random value drawn at
\* login, which the refresh token carries as its tokenHash claim and by
\* which refreshAccessToken finds the row.  It is not the digest of the
\* refresh token string.
C17_StoresDigestsOnly ==
  [][(ev'.op = "login_done" /\ ev'.status = 200) =>
       \A s \in sessions' \ sessions :
          LET rt == RefreshTokenOfRow(s) IN
          /\ \A a \in ev'.access :
               /\ s.token_hash = hashToken(a)
               /\ s.token_hash # a
               /\ validateSession(a, sessions', users', now')
          /\ s.refresh_token_hash = rt.tokenHash
          /\ s.refresh_token_hash # rt
          /\ s.refresh_token_hash # hashToken(rt)
          /\ RefreshSessionRows(rt.tokenHash, sessions') = {s}
          /\ RefreshSessionRows(hashToken(rt), sessions') = {}]_vars

\* a login has just stored its row and returned its access token
C17_Witness ==
  /\ ev.op = "login_done"
  /\ ev.status = 200
  /\ \E s \in sessions : \A a \in ev.access :
       s.token_hash = hashToken(a) /\ s.created_at = now

----------------------------------------------------------------------------
\* Deactivation, checked under TokenSpec

\* C20: once the identity's active flag is cleared, none of its access
\* tokens passes validateSession, no refreshAccessToken for it succeeds, no
\* step stores a session row for it, and its login_attempts stays as it is.
C20_DeactivatedIsShutOut ==
  [][\A u \in UserIds :
       ~users[u].is_active =>
          /\ \A token \in AccessTokens :
               token.userId = u => ~validateSession(token, sessions, users, now)
          /\ \A rt \in RefreshTokens :
               rt.userId = u => ~refreshAccessToken(rt, sessions, users, now).success
          /\ \A s \in sessions' : s.user_id = u => s \in sessions
          /\ users'[u].login_attempts = users[u].login_attempts]_vars

----------------------------------------------------------------------------
\* Vault claims

\* C18 (VaultSpec): a vault request authenticated as an identity returns
\* only account rows of that identity, and the rows it inserts, changes or
\* deletes are rows of that identity; export and import included.
C18_OwnerIsolation ==
  [][ev'.op \in VaultOps =>
       LET A == ev'.user IN
       /\ \A r \in returned' : r.user_id = A
       /\ \A r \in accounts \ accounts' : r.user_id = A
       /\ \A r \in accounts' \ accounts : r.user_id = A]_vars

\* an identity asked for a row of the other identity and got 404
C18_Witness ==
  /\ ev.op = "getAccountById"
  /\ ev.status = 404
  /\ returned = {}
  /\ \E r \in accounts : r.id = ev.snap /\ r.user_id # ev.user
  /\ \E s \in sessions : s.user_id = ev.user /\ s.is_valid

\* C19 (LockVaultSpec): while the identity's locked_until is in the future,
\* every read, create, update, delete, export and import request made with
\* one of its tokens is refused, writes nothing and returns no row.
C19_LockedOwnerShutOut ==
  [][\A u \in UserIds :
       (ev'.op \in VaultOps /\ ev'.user = u /\ LockedNow(u)) =>
          /\ ev'.status \in {401, 403}
          /\ accounts' = accounts
          /\ returned' = {}]_vars

\* a vault request was refused as locked although the token's session is
\* valid and the vault holds a row of the identity
C19_Witness ==
  /\ ev.op \in VaultOps
  /\ ev.status = 403
  /\ \E l \in users[ev.user].locked_until : l > now
  /\ \E token \in AccessTokens :
       token.userId = ev.user /\ authenticateToken(token, sessions, users, now)
  /\ \E r \in accounts : r.user_id = ev.user

\* C21 (SessionSpec): a run of cleanExpiredSessions changes the result of no
\* later verification or refresh: every access token is accepted by
\* authenticateToken after the cleanup exactly if it was before, and every
\* refresh token is honoured by refreshAccessToken after it exactly if it was
\* before.
C21_CleanupChangesNoResult ==
  [][ev'.op = "cleanup" =>
       /\ \A token \in AccessTokens :
            authenticateToken(token, sessions', users', now')
              = authenticateToken(token, sessions, users, now)
       /\ \A rt \in RefreshTokens :
            refreshAccessToken(rt, sessions', users', now').success
              = refreshAccessToken(rt, sessions, users, now).success]_vars

\* C22 (DeviceSpec): a successful login changes no existing session row; a
\* successful refresh changes only the row that held the refreshed token; a
\* successful logout changes at most one row; no row is removed, and every
\* other row, of the same identity or of another, keeps its valid flag, its
\* digests and its expiry.
C22_OtherSessionsUntouched ==
  [][(ev'.op \in {"login_done", "refresh", "logout"} /\ ev'.status = 200) =>
       LET changed == sessions \ sessions' IN
       /\ {s.id : s \in sessions} \subseteq {s.id : s \in sessions'}
       /\ Cardinality(changed) <= 1
       /\ ev'.op = "login_done" => changed = {}
       /\ ev'.op = "refresh" =>
            \A s \in changed : TokenOfHash(s.token_hash) \in ev'.old]_vars

\* a refresh succeeded on one session while another identity holds a valid
\* session, left as it was stored
C22_Witness ==
  /\ ev.op = "refresh"
  /\ ev.status = 200
  /\ \E s \in sessions : s.user_id = ev.user /\ TokenOfHash(s.token_hash) \in ev.access
  /\ \E s \in sessions :
       /\ s.user_id # ev.user
       /\ s.is_valid
       /\ TokenOfHash(s.token_hash) \notin ev.access
       /\ s.expires_at = toISOString(s.created_at + AccessTtlSeconds)

\* C28 (CipherSpec): for every non-empty plaintext and every IV, encryptData
\* returns a field, decryptData of that field returns, and what it returns is
\* the plaintext, code unit for code unit.
C28_CipherRoundTrip ==
  (call.fn \in {"threw", "decrypted"} /\ call.of # <<>>) =>
     /\ call.fn = "decrypted"
     /\ body = Returned(call.of)

\* C29 (HasherSpec): verifyPassword returns true on the password the digest
\* was made from and false on any other, and on a stored digest that is no
\* digest it reports an error, not the result false.
C29_MalformedDigestIsAnError ==
  call.fn = "verified" =>
     IF call.of \in {MalformedDigest, NullDigest}
       THEN body # Returned(FALSE)
       ELSE body = Returned(call.of = hashPassword(call.arg[1]))

C25_ImportFailuresAlike ==
  (call.fn = "decoded"
     /\ call.of.cause \in {"wrongPassphrase", "corrupted", "unparseable", "missingAccounts"})
    => body = Response(400, "Gagal mendekripsi file import. Password salah atau file rusak.", <<>>)

----------------------------------------------------------------------------
\* Export and import claims

C24_ImportSkipsAndCounts ==
  [][(ev'.op = "importVault" /\ ev'.status \notin {401, 403, 404, 429}) =>
       LET decoded == ImportDecode(call'.arg.importData, call'.arg.importPassword) IN
       decoded.status = 0 =>
         /\ ev'.status = 200
         /\ body'.data.imported + body'.data.skipped = Len(decoded.data)
         /\ Len(body'.data.errors) = body'.data.skipped
         /\ Cardinality(accounts' \ accounts) = body'.data.imported]_vars

----------------------------------------------------------------------------
\* Stored secrets, checked under StoreSpec

\* `stored` is hex(iv):hex(ciphertext) of the secret under the key of the
\* server, for one of the IVs
IsCiphertextOf(stored, secret) ==
  \E iv \in Ivs :
    stored = <<Hex(iv), ":", Hex(AesCbcEncrypt(AesKey, iv, Utf8Encode(secret)))>>

\* the row holds the secrets of the record, encrypted
HoldsEncrypted(r, password, notes) ==
  /\ ~Falsy(password)
  /\ IsCiphertextOf(r.password_encrypted, password)
  /\ IF Falsy(notes) THEN r.notes_encrypted = NullValue
     ELSE IsCiphertextOf(r.notes_encrypted, notes)

\* C27 (StoreSpec): the row a create writes, the fields an update sets and
\* the rows an import adds hold the password, and the notes if there are
\* any, as an output of encryptData on the secret of the request, never the
\* secret itself; every row of the table is of that form; and no account of
\* a list response has a password or notes field, encrypted or not.
C27_SecretsStoredEncrypted ==
  [][ev'.op \in VaultOps =>
       /\ \A r \in accounts' :
            /\ \E p \in Plaintexts \ {<<>>} : IsCiphertextOf(r.password_encrypted, p)
            /\ \/ r.notes_encrypted = NullValue
               \/ \E p \in Plaintexts \ {<<>>} : IsCiphertextOf(r.notes_encrypted, p)
       /\ (ev'.op = "createAccount" /\ ev'.status = 201) =>
            \E r \in accounts' \ accounts :
              /\ r.id = ev'.snap
              /\ HoldsEncrypted(r, call'.arg.password, call'.arg.notes)
       /\ (ev'.op = "updateAccount" /\ ev'.status = 200) =>
            \E r \in accounts', q \in accounts :
              /\ r.id = ev'.snap /\ q.id = ev'.snap
              /\ IF "password" \in call'.arg.fields
                   THEN IsCiphertextOf(r.password_encrypted, call'.arg.password)
                   ELSE r.password_encrypted = q.password_encrypted
              /\ IF "notes" \notin call'.arg.fields
                   THEN r.notes_encrypted = q.notes_encrypted
                 ELSE IF Falsy(call'.arg.notes) THEN r.notes_encrypted = NullValue
                 ELSE IsCiphertextOf(r.notes_encrypted, call'.arg.notes)
       /\ (ev'.op = "importVault" /\ ev'.status = 200) =>
            LET list == ImportDecode(call'.arg.importData, call'.arg.importPassword).data IN
            \A r \in accounts' \ accounts :
              \E i \in 1..Len(list) :
                /\ r.site_name = list[i].siteName
                /\ HoldsEncrypted(r, list[i].password, list[i].notes)
       /\ (ev'.op = "getAllAccounts" /\ ev'.status = 200) =>
            \A a \in body'.data :
              DOMAIN a \cap {"password", "notes", "password_encrypted", "notes_encrypted"} = {}]_vars

\* the vault holds two rows, one of them with notes, and an update has just
\* set the password of one of them
C27_Witness ==
  /\ ev.op = "updateAccount"
  /\ ev.status = 200
  /\ "password" \in call.arg.fields
  /\ \E r \in accounts :
       r.id = ev.snap /\ IsCiphertextOf(r.password_encrypted, call.arg.password)
  /\ \E r \in accounts : ~Falsy(r.notes_encrypted)
  /\ Cardinality(accounts) = 2

----------------------------------------------------------------------------
\* The limiter of the export route, checked under LimiterSpec

\* the export requests of the identity that the limiter admitted during the
\* TransferWindowSeconds up to now
AdmittedExports(u) ==
  {i \in DOMAIN exportLog :
     exportLog[i].user = u /\ exportLog[i].at > now - TransferWindowSeconds}

\* C30 (LimiterSpec): whatever requests an identity sends to the limited
\* routes, the limiter admits at most 10 of its export requests within one
\* hour.
C30_TenExportsPerHour ==
  \A u \in Owners : Cardinality(AdmittedExports(u)) <= TransferMax

----------------------------------------------------------------------------
\* Import modes, checked under ImportSpec

\* the rows of an identity
RowsOf(A, u) == {r \in A : r.user_id = u}

\* C31 (ImportSpec): a successful import in a mode other than replace
\* deletes and changes no row that was there, and the identity then has as
\* many rows as before plus the number of records reported as imported.
C31_MergeAddsOnly ==
  [][(ev'.op = "importVault" /\ ev'.status = 200
        /\ call'.arg.mergeMode # "replace") =>
       /\ accounts \subseteq accounts'
       /\ Cardinality(RowsOf(accounts', ev'.user))
            = Cardinality(RowsOf(accounts, ev'.user)) + body'.data.imported
       /\ \A r \in accounts' \ accounts : r.user_id = ev'.user]_vars

\* a merge import has added two rows to a vault that held one of the identity
C31_Witness ==
  /\ ev.op = "importVault"
  /\ ev.status = 200
  /\ call.arg.mergeMode = "merge"
  /\ body.data.imported = 2
  /\ Cardinality(RowsOf(accounts, ev.user)) = 3
  /\ \E r \in accounts : r.user_id # ev.user

\* C32 (ImportSpec): a replace import takes effect as a whole or not at all.
\* Answered 200, it leaves the identity with exactly the rows of the records
\* it imported, none of them a row that was there before, and the rows of
\* other identities as they were; answered otherwise, it leaves the table
\* as it was. Every request sees the table before or after, since the
\* transaction is one step.
C32_ReplaceIsAtomic ==
  [][(ev'.op = "importVault" /\ call'.arg.mergeMode = "replace") =>
       IF ev'.status = 200
         THEN LET list == ImportDecode(call'.arg.importData,
                                       call'.arg.importPassword).data IN
              /\ RowsOf(accounts', ev'.user) \cap accounts = {}
              /\ Cardinality(RowsOf(accounts', ev'.user)) = body'.data.imported
              /\ \A r \in RowsOf(accounts', ev'.user) :
                   \E i \in 1..Len(list) :
                     /\ r.site_name = list[i].siteName
                     /\ HoldsEncrypted(r, list[i].password, list[i].notes)
              /\ \A u \in Owners \ {ev'.user} : RowsOf(accounts', u) = RowsOf(accounts, u)
         ELSE accounts' = accounts /\ nextAccountId' = nextAccountId]_vars

\* a replace import has put one row in the place of the row the identity
\* had, next to the row of another identity
C32_Witness ==
  /\ ev.op = "importVault"
  /\ ev.status = 200
  /\ call.arg.mergeMode = "replace"
  /\ body.data.imported = 1
  /\ body.data.skipped = 1
  /\ nextAccountId = 4
  /\ Cardinality(RowsOf(accounts, ev.user)) = 1
  /\ \E r \in accounts : r.user_id # ev.user

----------------------------------------------------------------------------
\* Login claims

\* C34 (LockoutSpec): in every state, an identity whose locked_until is set
\* has a login_attempts of at least 5.
C34_LockedOnlyAtThreshold ==
  \A u \in DOMAIN users :
    users[u].locked_until # {} => users[u].login_attempts >= MaxLoginAttempts

\* the entry of the key counts 5 requests and its resetTime has not passed
WindowFull(key) ==
  IF key \in DOMAIN requestCounts
    THEN now <= requestCounts[key].resetTime /\ requestCounts[key].count >= 5
    ELSE FALSE

\* what a request to a public route does to the entry of its key: refused
\* with 429 before the controller when the window is full; otherwise
\* admitted and counted, as request 1 of a window of 15 minutes when there
\* is no entry or its resetTime has passed
LimiterKept(key) ==
  IF WindowFull(key)
    THEN /\ ev'.status = 429
         /\ UNCHANGED <<requestCounts, pending, users, sessions>>
    ELSE /\ ev'.status # 429
         /\ key \in DOMAIN requestCounts'
         /\ requestCounts'[key] =
              IF key \in DOMAIN requestCounts /\ now <= requestCounts[key].resetTime
                THEN [count |-> requestCounts[key].count + 1,
                      resetTime |-> requestCounts[key].resetTime]
                ELSE [count |-> 1, resetTime |-> now + 900]

\* C33 (LoginLimiterSpec): each login or register request is counted under
\* its identifier; from the creation of the entry to its resetTime, 15
\* minutes later, 5 requests are admitted and every further one is answered
\* 429 without reaching the controller; no stored count exceeds 5.
C33_FivePerWindow ==
  [][/\ \A ip \in Ips, ident \in UserIds \cup {Unknown}, password \in Passwords :
          LoginStart(ip, ident, password) => LimiterKept(ip)
     /\ \A ip \in Ips, username \in {"", UsernameOf(1)} :
          RegisterStart(ip, username, "right") =>
            LimiterKept(IF username = "" THEN ip ELSE username)
     /\ \A key \in DOMAIN requestCounts' : requestCounts'[key].count <= 5]_vars

\* a login was answered 429 at the last second of a window that holds 5
\* requests, and a register under a username was answered 429 as well
C33_Witness ==
  /\ ev.op = "login"
  /\ ev.status = 429
  /\ \E ip \in Ips : ip \in DOMAIN requestCounts
       /\ requestCounts[ip].count = 5 /\ requestCounts[ip].resetTime = now
  /\ UsernameOf(1) \in DOMAIN requestCounts
  /\ requestCounts[UsernameOf(1)].count = 5

\* the password is the one the identity's digest was made from
PasswordMatches(u, password) ==
  u \in DOMAIN users /\ users[u].password_hash = <<"bcrypt", password>>

\* C35 (AuthSpec): a login request with an unknown identifier or a wrong
\* password stores no session row and returns no token; and every session
\* row stored belongs to the identity whose password the storing login
\* request carried, or which the storing register request has just
\* inserted.
C35_TokensOnlyAfterVerification ==
  [][/\ (ev'.op \in {"login", "login_locked", "login_verify", "login_done"}
          /\ ~PasswordMatches(ev'.user, ev'.password)) =>
            (sessions' = sessions /\ ev'.access = {})
     /\ \A row \in sessions' \ sessions :
          /\ row.user_id = ev'.user
          /\ \A a \in ev'.access : a.userId = ev'.user
          /\ \/ ev'.op = "login_done" /\ ev'.status = 200
                  /\ PasswordMatches(ev'.user, ev'.password)
             \/ ev'.op = "register_done" /\ ev'.status = 201
                  /\ ev'.user \notin DOMAIN users
                  /\ ev'.user \in DOMAIN users']_vars

\* a login with the wrong password has been answered 401 for an identity
\* that registered and holds a session, and the table holds that row only
C35_Witness ==
  /\ ev.op = "login_done"
  /\ ev.status = 401
  /\ ev.password = "wrong"
  /\ ev.user = 2
  /\ ev.access = {}
  /\ \A row \in sessions : row.user_id = 2
  /\ sessions # {}

\* C36: token types are not interchangeable.  No refresh token that was
\* issued passes verifyAccessToken, and every access token sent to
\* /auth/refresh is answered 401 and changes no session
C36_TypesNotInterchangeable ==
  [][/\ \A rt \in RefreshTokens : ~verifyAccessToken(rt, now)
     /\ \A token \in AccessTokens :
          Refresh(token) => (ev'.status = 401 /\ ev'.access = {} /\ sessions' = sessions)]_vars

\* a refresh was refused while every refresh token held would have been
\* accepted and every access token held passes the middleware: the token
\* sent was an access token, live as such
C36_Witness ==
  /\ ev.op = "refresh" /\ ev.status = 401
  /\ RefreshTokens # {} /\ AccessTokens # {}
  /\ \A rt \in RefreshTokens : refreshAccessToken(rt, sessions, users, now).success
  /\ \A token \in AccessTokens : authenticateToken(token, sessions, users, now)

\* a row that refreshAccessToken has updated: its expires_at is the text
\* datetime('now', '+7 days') wrote, not the ISO text of storeSession
Refreshed(s) == s.expires_at[1] = "sql"

\* C37: refreshAccessToken does not rotate the refresh token.  A successful
\* refresh leaves refresh_token_hash of every row as it was, and the refresh
\* token of a row that was refreshed is accepted again for as long as the
\* row is valid and the token has not expired
C37_RefreshTokenNotRotated ==
  [][/\ \A rt \in RefreshTokens :
          (Refresh(rt) /\ ev'.status = 200) =>
            \A s \in sessions : \E r \in sessions' :
               r.id = s.id /\ r.refresh_token_hash = s.refresh_token_hash
     /\ \A s \in sessions' :
          (Refreshed(s) /\ s.is_valid /\ now' < RefreshTokenOfRow(s).exp) =>
            refreshAccessToken(RefreshTokenOfRow(s), sessions', users', now').success]_vars

----------------------------------------------------------------------------
\* The browser client (apiClient and its interceptors)

ClientFrame == UNCHANGED <<now, ticks, users, nextSessionId, requestCounts, pending,
                           revoked, revokedRefresh, vaultVars, body, call, exportLog>>

\* AuthContext.login after a 200: both tokens of the response are stored
StoreTokens ==
  /\ ev.op = "login_done" /\ ev.status = 200
  /\ localStorage' =
       [accessToken |-> ev.access,
        refreshToken |-> {RefreshTokenOfRow(s) :
                            s \in {x \in sessions : \E token \in ev.access :
                                                      x.token_hash = hashToken(token)}}]
  /\ localStorage' # localStorage
  /\ UNCHANGED <<originalRequests, sessions, ev>>
  /\ ClientFrame

\* a call through apiClient; the request interceptor puts the stored access
\* token, if there is one, in the Authorization header
ClientRequest ==
  /\ Len(originalRequests) < MaxClientRequests
  /\ originalRequests' =
       Append(originalRequests,
              [phase |-> "sent", retry |-> FALSE,
               Authorization |-> localStorage.accessToken,
               status |-> 0, refreshToken |-> {}, accessToken |-> {},
               refreshes |-> 0, attempts |-> 1])
  /\ UNCHANGED <<localStorage, sessions, ev>>
  /\ ClientFrame

\* the server answers a request to a route behind authenticateToken
ServerAnswer(i) ==
  LET r == originalRequests[i]
      status == IF \E token \in r.Authorization :
                     authenticateToken(token, sessions, users, now)
                  THEN 200 ELSE 401
  IN
  /\ r.phase = "sent"
  /\ originalRequests' = [originalRequests EXCEPT ![i].phase = "answered",
                                                  ![i].status = status]
  /\ ev' = Event("request", status, Unknown, "", {}, {}, i)
  /\ UNCHANGED <<localStorage, sessions>>
  /\ ClientFrame

\* an interceptor that does not read the mark of the request
ResponseInterceptorUnmarked(i) ==
  LET r == originalRequests[i] IN
  /\ r.phase = "answered"
  /\ originalRequests' =
       IF r.status # 401 THEN [originalRequests EXCEPT ![i].phase = "resolved"]
       ELSE IF localStorage.refreshToken = {}
         THEN [originalRequests EXCEPT ![i].phase = "rejected"]
       ELSE [originalRequests EXCEPT ![i].phase = "refreshing",
                                     ![i].refreshToken = localStorage.refreshToken,
                                     ![i].refreshes = @ + 1]
  /\ UNCHANGED <<localStorage, sessions, ev>>
  /\ ClientFrame

\* the response interceptor: a 401 on a request not yet retried marks it
\* and posts the stored refresh token to /auth/refresh; with no refresh
\* token stored, or on a request already retried, the error is rejected
ResponseInterceptor(i) ==
  LET r == originalRequests[i] IN
  /\ r.phase = "answered"
  /\ originalRequests' =
       IF r.status # 401 THEN [originalRequests EXCEPT ![i].phase = "resolved"]
       ELSE IF r.retry THEN [originalRequests EXCEPT ![i].phase = "rejected"]
       ELSE IF localStorage.refreshToken = {}
         THEN [originalRequests EXCEPT ![i].phase = "rejected", ![i].retry = TRUE]
       ELSE [originalRequests EXCEPT ![i].phase = "refreshing",
                                     ![i].retry = TRUE,
                                     ![i].refreshToken = localStorage.refreshToken,
                                     ![i].refreshes = @ + 1]
  /\ UNCHANGED <<localStorage, sessions, ev>>
  /\ ClientFrame

\* the server answers the POST /auth/refresh of request i
ServerRefresh(i) ==
  LET r == originalRequests[i]
      rt == CHOOSE t \in r.refreshToken : TRUE
      res == refreshAccessToken(rt, sessions, users, now)
  IN
  /\ r.phase = "refreshing"
  /\ sessions' = res.sessions
  /\ originalRequests' =
       [originalRequests EXCEPT ![i].phase = "refreshed",
                                ![i].status = IF res.success THEN 200 ELSE 401,
                                ![i].accessToken = res.accessToken]
  /\ ev' = Event("refresh", IF res.success THEN 200 ELSE 401, rt.userId, "",
                 res.accessToken, {}, i)
  /\ UNCHANGED localStorage
  /\ ClientFrame

\* the interceptor after `await axios.post`: the new access token is stored
\* and the request sent again with it; when the refresh was refused, the
\* catch removes both tokens and rejects
RefreshResolved(i) ==
  LET r == originalRequests[i] IN
  /\ r.phase = "refreshed"
  /\ IF r.status = 200 THEN
       /\ localStorage' = [localStorage EXCEPT !.accessToken = r.accessToken]
       /\ originalRequests' = [originalRequests EXCEPT ![i].phase = "sent",
                                                       ![i].Authorization = r.accessToken,
                                                       ![i].attempts = @ + 1]
     ELSE
       /\ localStorage' = NoTokens
       /\ originalRequests' = [originalRequests EXCEPT ![i].phase = "rejected"]
  /\ UNCHANGED <<sessions, ev>>
  /\ ClientFrame

\* a browser that logged in at second 0 and stored the tokens it was given
ClientInit ==
  /\ now = 0
  /\ ticks = 0
  /\ users = [u \in UserIds |->
                [password_hash |-> hashPassword(PasswordOf(u)),
                 login_attempts |-> 0,
                 locked_until |-> {},
                 is_active |-> TRUE]]
  /\ sessions = {OwnerSession(1)}
  /\ nextSessionId = 2
  /\ requestCounts = [k \in Ips |-> [count |-> 1, resetTime |-> LimiterWindowSeconds]]
  /\ pending = EmptyBag
  /\ revoked = {}
  /\ revokedRefresh = {}
  /\ ev = Event("login_done", 200, 1, "right", {generateAccessToken(1, 0)}, {}, 0)
  /\ accounts = {}
  /\ nextAccountId = 1
  /\ returned = {}
  /\ body = NoBody
  /\ call = NoCall
  /\ exportLog = <<>>
  /\ localStorage = [accessToken |-> {generateAccessToken(1, 0)},
                     refreshToken |-> {RefreshTokenOfRow(OwnerSession(1))}]
  /\ originalRequests = <<>>

\* One browser: requests through apiClient, the server answering them in
\* any order, the clock running past the lifetime of the access token and
\* of the refresh token, and a new login once the tokens have been removed
ClientNext ==
  \/ \E ip \in Ips, ident \in UserIds :
       /\ localStorage = NoTokens /\ pending = EmptyBag
       /\ LoginStart(ip, ident, PasswordOf(ident))
  \/ \E req \in BagToSet(pending) : LoginFinish(req)
  \/ StoreTokens
  \/ ClientRequest
  \/ \E i \in DOMAIN originalRequests : ServerAnswer(i)
  \/ \E i \in DOMAIN originalRequests : ResponseInterceptor(i)
  \/ \E i \in DOMAIN originalRequests : ServerRefresh(i)
  \/ \E i \in DOMAIN originalRequests : RefreshResolved(i)
  \/ \E d \in {1, AccessTtlSeconds, RefreshTtlSeconds} : Tick(d)

ClientSpec == ClientInit /\ [][ClientNext]_vars

\* a request the client has settled
Settled(r) == r.phase \in {"resolved", "rejected"}

\* C38: the client's 401 handler terminates.  No request is refreshed for
\* more than once or sent more than twice, and a second sending follows a
\* refresh; a 401 on a request already retried rejects it; a refused
\* refresh rejects it and removes both stored tokens; a settled request is
\* not taken up again
C38_InterceptorTerminates ==
  [][/\ \A i \in DOMAIN originalRequests' :
          /\ originalRequests'[i].refreshes <= 1
          /\ originalRequests'[i].attempts <= 1 + originalRequests'[i].refreshes
     /\ \A i \in DOMAIN originalRequests :
          /\ (ResponseInterceptor(i) /\ originalRequests[i].status = 401
                 /\ originalRequests[i].retry) =>
               (originalRequests'[i].phase = "rejected" /\ localStorage' = localStorage)
          /\ (RefreshResolved(i) /\ originalRequests[i].status # 200) =>
               (originalRequests'[i].phase = "rejected" /\ localStorage' = NoTokens)
          /\ Settled(originalRequests[i]) => originalRequests'[i] = originalRequests[i]]_vars

\* one request was rejected on the 401 of its retry, another on the refusal
\* of its refresh, and the storage is empty
C38_Witness ==
  /\ localStorage = NoTokens
  /\ \E i, j \in DOMAIN originalRequests :
       /\ originalRequests[i].phase = "rejected" /\ originalRequests[i].attempts = 2
       /\ originalRequests[i].refreshes = 1
       /\ originalRequests[j].phase = "rejected" /\ originalRequests[j].attempts = 1
       /\ originalRequests[j].refreshes = 1 /\ originalRequests[j].accessToken = {}

\* the refresh token a request posted is still good: not expired, its
\* session valid, its owner active
RefreshTokenGood(r) ==
  \E rt \in r.refreshToken :
     /\ now < rt.exp
     /\ rt.userId \in DOMAIN users /\ users[rt.userId].is_active
     /\ RefreshSessionRows(rt.tokenHash, sessions) # {}

\* C39: with a valid refresh token and a valid session, every request that
\* was answered 401 succeeds after its refresh and retry, however the
\* refresh calls and the retried requests of several requests interleave:
\* no request is rejected after a retry that carried an unexpired access
\* token while the refresh token it posted is still good
C39_ConcurrentRetriesSucceed ==
  \A i \in DOMAIN originalRequests :
     LET r == originalRequests[i] IN
     (/\ r.phase = "rejected" /\ r.attempts = 2
      /\ \A token \in r.Authorization : now < token.exp
      /\ RefreshTokenGood(r)) => FALSE

====
